---- MODULE Spec2Model ----
(***************************************************************************)
(* atm-refraction:                                                         *)
(*   VerticalProfileBuilder   (src/air/atmosphere/vertical_profile.rs)     *)
(*   PressureProfile          (src/air/atmosphere/pressure_profile.rs)     *)
(*   Atmosphere::from_def     (src/air/atmosphere/mod.rs)                  *)
(*   Atmosphere of layers     (src/air/atmosphere.rs)                      *)
(*   Environment::cast_ray_target, n_minus_1, n, dn  (src/environment.rs)  *)
(*   Line, Ray, LineStepper, RayStepper       (src/paths/flat.rs,          *)
(*                                             src/paths/spherical.rs)     *)
(*                                                                         *)
(* Each component has its own specification: Spec and SpecCalls (the       *)
(* builder), SpecFill and SpecFillFair (fill_fixed_points, call by call),  *)
(* SpecAtm and SpecPressure, SpecLayers, SpecEnv (the refractive index),   *)
(* SpecTarget, SpecRay (the spherical Ray), SpecFlatRay, SpecRays (both)   *)
(* and SpecStepper.                                                        *)
(*                                                                         *)
(* Numbers.  Altitudes are whole metres.  In the profile builder, profile  *)
(* values (temperature, humidity) are integers counted in units of 1e-4,   *)
(* so that the builder's tolerance EPSILON = 1e-4 is the integer 1 and a   *)
(* gradient is an integer number of units per metre; the arithmetic of the *)
(* builder is exact.  The straight line of cast_ray_target and the         *)
(* temperatures of the atmosphere of layers are f64 values, with the       *)
(* rounding of every operation.                                            *)
(*                                                                         *)
(* Option<T> is a sequence of length at most one: None is <<>> and Some(v) *)
(* is <<v>>.  Rust indices are 0-based; a Vec v is a sequence whose        *)
(* element v[i] is written v[i + 1].                                       *)
(***************************************************************************)
EXTENDS Integers, Sequences, FiniteSets, TLC

VARIABLES
    pc,                 \* where the modelled call sequence stands
    interval_ends,      \* VerticalProfileBuilder.interval_ends
    function_defs,      \* VerticalProfileBuilder.function_defs
    fixed_value,        \* VerticalProfileBuilder.fixed_value
    lowered,            \* build(): result of generate_intermediate_function_defs
    filled,             \* build(): the function defs after fill_fixed_points
    result,             \* what build() returned
    query,              \* the last evaluation: Some([h, value]) or None
    atm_def,            \* the AtmosphereDef given to Atmosphere::from_def
    atmosphere,         \* what Atmosphere::from_def returned
    target,             \* cast_ray_target: its arguments and the environment
    min_ang,            \* cast_ray_target: lower end of the bracket
    max_ang,            \* cast_ray_target: upper end of the bracket
    integrations,       \* cast_ray_target: rays integrated to tgt_dist so far
    path,               \* what cast_ray_target returned
    ray,                \* a Ray of paths/flat.rs or paths/spherical.rs
    ray_dist,           \* Ray::state_at_dist: the argument dist
    ray_state,          \* Ray::state_at_dist: the local state
    steps,              \* Ray::state_at_dist: the steps integrated so far
    stepper,            \* a PathStepper: its kind, position and step size
    yielded,            \* what the last call of next() returned
    stepped,            \* the calls made on the PathStepper so far
    calls,              \* the builder calls made so far
    layers_def,         \* air/atmosphere.rs: the AtmosphereDef given to from_def
    layers_atm,         \* air/atmosphere.rs: what from_def returned
    filling             \* fill_fixed_points: the loop index and the calls in progress

vars == <<pc, interval_ends, function_defs, fixed_value, lowered, filled, result, query,
          atm_def, atmosphere, target, min_ang, max_ang, integrations, path,
          ray, ray_dist, ray_state, steps, stepper, yielded, stepped, calls,
          layers_def, layers_atm, filling>>

----------------------------------------------------------------------------
(* Option and small arithmetic helpers *)

None == <<>>

Some(v) == <<v>>

IsSome(o) == Len(o) = 1

Unwrap(o) == o[1]

Abs(v) == IF v < 0 THEN -v ELSE v

\* const EPSILON: f64 = 1e-4, in units of 1e-4
EPSILON == 1

----------------------------------------------------------------------------
(* The variables by component.  A specification moves the variables of its *)
(* own component and leaves the others as they start, at None.             *)

builder_vars == <<interval_ends, function_defs, fixed_value, lowered, filled, result>>

atm_vars == <<atm_def, atmosphere>>

target_vars == <<target, min_ang, max_ang, integrations, path>>

ray_vars == <<ray, ray_dist, ray_state, steps>>

stepper_vars == <<stepper, yielded, stepped>>

layers_vars == <<layers_def, layers_atm>>

\* what the builder and the atmosphere leave alone
ext_vars == <<target_vars, ray_vars, stepper_vars, calls, layers_vars, filling>>

\* what cast_ray_target leaves alone
target_rest == <<builder_vars, atm_vars, ray_vars, stepper_vars, calls, layers_vars, filling>>

\* what state_at_dist leaves alone
ray_rest ==
    <<builder_vars, atm_vars, target_vars, stepper_vars, calls, layers_vars, filling,
    query>>

\* what a stepper leaves alone
stepper_rest ==
    <<builder_vars, atm_vars, target_vars, ray_vars, calls, layers_vars, filling,
    query>>

\* what the builder with its calls recorded leaves alone
calls_rest == <<atm_vars, target_vars, ray_vars, stepper_vars, layers_vars, filling>>

\* what the atmosphere of layers leaves alone
layers_rest == <<builder_vars, atm_vars, target_vars, ray_vars, stepper_vars, calls, filling>>

BuilderIdle ==
    /\ interval_ends = <<>>
    /\ function_defs = <<>>
    /\ fixed_value = None
    /\ lowered = None
    /\ filled = None
    /\ result = None

AtmIdle == atm_def = None /\ atmosphere = None

TargetIdle ==
    /\ target = None
    /\ min_ang = None
    /\ max_ang = None
    /\ integrations = None
    /\ path = None

RayIdle == ray = None /\ ray_dist = None /\ ray_state = None /\ steps = None

StepperIdle == stepper = None /\ yielded = None /\ stepped = None

CallsIdle == calls = None

LayersIdle == layers_def = None /\ layers_atm = None

FillIdle == filling = None

ExtIdle ==
    TargetIdle /\ RayIdle /\ StepperIdle /\ CallsIdle /\ LayersIdle /\ FillIdle

----------------------------------------------------------------------------
(* cubic_splines: CubicPoly and Spline (external crate; natural boundary   *)
(* condition, three control points)                                        *)

\* a cubic c0 + c1 t + c2 t^2 + c3 t^3 in t = x - x0
PolyEval(poly, x) ==
    LET t == x - poly.x0
    IN  poly.c[1] + poly.c[2] * t + poly.c[3] * t * t + poly.c[4] * t * t * t

PolyDerivative(poly, x) ==
    LET t == x - poly.x0
    IN  poly.c[2] + 2 * poly.c[3] * t + 3 * poly.c[4] * t * t

\* Spline::new(points, BoundaryCondition::Natural) for three points:
\* second derivative 0 at both ends and M at the middle knot, with
\* (h1 + h2) M / 3 = (y3 - y2) / h2 - (y2 - y1) / h1.
SplineNew(points) ==
    LET x1 == points[1][1]
        y1 == points[1][2]
        x2 == points[2][1]
        y2 == points[2][2]
        x3 == points[3][1]
        y3 == points[3][2]
        h1 == x2 - x1
        h2 == x3 - x2
        M  == (3 * (h1 * (y3 - y2) - h2 * (y2 - y1))) \div (h1 * h2 * (h1 + h2))
        b1 == ((y2 - y1) \div h1) - ((M * h1) \div 6)
        d1 == M \div (6 * h1)
        b2 == b1 + 3 * d1 * h1 * h1
        d2 == -(M \div (6 * h2))
    IN  [ xs    |-> <<x1, x2, x3>>,
          polys |-> << [x0 |-> x1, c |-> <<y1, b1, 0, d1>>],
                       [x0 |-> x2, c |-> <<y2, b2, M \div 2, d2>>] >> ]

SplineMinX(spline) == spline.xs[1]

SplineMaxX(spline) == spline.xs[Len(spline.xs)]

\* Spline::polynomials(): one (start, end, poly) per pair of adjacent knots
SplinePolynomials(spline) ==
    [k \in 1..Len(spline.polys) |->
        [start |-> spline.xs[k], end |-> spline.xs[k + 1], poly |-> spline.polys[k]]]

SplineEval(spline, x) ==
    IF x <= spline.xs[2] THEN PolyEval(spline.polys[1], x)
    ELSE PolyEval(spline.polys[2], x)

SplineDerivativeStart(spline) == PolyDerivative(spline.polys[1], SplineMinX(spline))

SplineDerivativeEnd(spline) ==
    PolyDerivative(spline.polys[Len(spline.polys)], SplineMaxX(spline))

----------------------------------------------------------------------------
(* FunctionDef and IntermediateFunctionDef *)

LinearDef(g) == [kind |-> "Linear", gradient |-> g]

SplineDef(points) == [kind |-> "Spline", points |-> points]

ILinear(g, fp) == [kind |-> "Linear", gradient |-> g, fixed_point |-> fp]

ICubic(poly) == [kind |-> "Cubic", poly |-> poly]

\* mutant: the distance to the fixed point is taken with the wrong sign
Get_Reversed(def, x) ==
    IF def.kind = "Linear"
    THEN IF IsSome(def.fixed_point)
         THEN Some(Unwrap(def.fixed_point)[2] + (Unwrap(def.fixed_point)[1] - x) * def.gradient)
         ELSE None
    ELSE Some(PolyEval(def.poly, x))

\* IntermediateFunctionDef::get
Get(def, x) ==
    IF def.kind = "Linear"
    THEN IF IsSome(def.fixed_point)
         THEN LET x0 == Unwrap(def.fixed_point)[1]
                  y0 == Unwrap(def.fixed_point)[2]
              IN  Some(y0 + (x - x0) * def.gradient)
         ELSE None
    ELSE Some(PolyEval(def.poly, x))

\* IntermediateFunctionDef::has_fixed_point
HasFixedPoint(def) ==
    IF def.kind = "Linear" THEN IsSome(def.fixed_point) ELSE TRUE

\* mutant: the intercept is computed with the wrong sign, b = y + gradient * x
IntoFunction_WrongIntercept(def) ==
    IF def.kind = "Linear"
    THEN IF IsSome(def.fixed_point)
         THEN [kind |-> "Linear", a |-> def.gradient,
               b |-> Unwrap(def.fixed_point)[2] + def.gradient * Unwrap(def.fixed_point)[1]]
         ELSE [kind |-> "Panic"]
    ELSE [kind |-> "Cubic", poly |-> def.poly]

\* IntermediateFunctionDef::into_function; the expect() panics on a Linear
\* interval that has no fixed point
IntoFunction(def) ==
    IF def.kind = "Linear"
    THEN IF IsSome(def.fixed_point)
         THEN LET x == Unwrap(def.fixed_point)[1]
                  y == Unwrap(def.fixed_point)[2]
              IN  [kind |-> "Linear", a |-> def.gradient, b |-> y - def.gradient * x]
         ELSE [kind |-> "Panic"]
    ELSE [kind |-> "Cubic", poly |-> def.poly]

\* mutant: the start of a piece is pushed before the test that skips the
\* pieces above end_alt
RECURSIVE SplinePieces_PushBeforeSkip(_, _, _, _)
SplinePieces_PushBeforeSkip(pieces, k, start_alt, end_alt) ==
    IF k > Len(pieces) THEN [alts |-> <<>>, funs |-> <<>>]
    ELSE
        LET piece == pieces[k]
            rest  == SplinePieces_PushBeforeSkip(pieces, k + 1, start_alt, end_alt)
            skip1 == IsSome(start_alt) /\ Unwrap(start_alt) > piece.end
            start == IF IsSome(start_alt) /\ Unwrap(start_alt) > piece.start
                     THEN Unwrap(start_alt) ELSE piece.start
            skip2 == IsSome(end_alt) /\ Unwrap(end_alt) < start
        IN  IF skip1 THEN rest
            ELSE IF skip2 THEN [alts |-> <<start>> \o rest.alts, funs |-> rest.funs]
            ELSE [alts |-> <<start>> \o rest.alts,
                  funs |-> <<ICubic(piece.poly)>> \o rest.funs]

\* the body of `for (mut start, end, poly) in spline.polynomials()`, from
\* piece k on: the (alts, funs) the remaining pieces push
RECURSIVE SplinePieces(_, _, _, _)
SplinePieces(pieces, k, start_alt, end_alt) ==
    IF k > Len(pieces) THEN [alts |-> <<>>, funs |-> <<>>]
    ELSE
        LET piece == pieces[k]
            rest  == SplinePieces(pieces, k + 1, start_alt, end_alt)
            skip1 == IsSome(start_alt) /\ Unwrap(start_alt) > piece.end
            start == IF IsSome(start_alt) /\ Unwrap(start_alt) > piece.start
                     THEN Unwrap(start_alt) ELSE piece.start
            skip2 == IsSome(end_alt) /\ Unwrap(end_alt) < start
        IN  IF skip1 \/ skip2 THEN rest
            ELSE [alts |-> <<start>> \o rest.alts,
                  funs |-> <<ICubic(piece.poly)>> \o rest.funs]

\* mutant: a gradient segment anchored at its start altitude with value 0
IntoIntermediateLinear_Anchored(def, start_alt) ==
    [alts |-> start_alt,
     funs |-> <<ILinear(def.gradient,
                        IF IsSome(start_alt) THEN Some(<<Unwrap(start_alt), 0>>) ELSE None)>>]

\* FunctionDef::into_intermediate, the FunctionDef::Linear arm
IntoIntermediateLinear(def, start_alt) ==
    [alts |-> start_alt, funs |-> <<ILinear(def.gradient, None)>>]

\* mutant: a spline segment that starts exactly on the lowest control
\* altitude emits a leading Linear too
IntoIntermediateSpline_LeadOnEqual(def, start_alt, end_alt) ==
    LET spline == SplineNew(def.points)
        atMin  == <<SplineMinX(spline), SplineEval(spline, SplineMinX(spline))>>
        atMax  == <<SplineMaxX(spline), SplineEval(spline, SplineMaxX(spline))>>
        lead   == IF ~IsSome(start_alt) \/ Unwrap(start_alt) <= SplineMinX(spline)
                  THEN [alts |-> start_alt,
                        funs |-> <<ILinear(SplineDerivativeStart(spline), Some(atMin))>>]
                  ELSE [alts |-> <<>>, funs |-> <<>>]
        mid    == SplinePieces(SplinePolynomials(spline), 1, start_alt, end_alt)
        trail  == IF ~IsSome(end_alt) \/ Unwrap(end_alt) > SplineMaxX(spline)
                  THEN [alts |-> <<SplineMaxX(spline)>>,
                        funs |-> <<ILinear(SplineDerivativeEnd(spline), Some(atMax))>>]
                  ELSE [alts |-> <<>>, funs |-> <<>>]
    IN  [alts |-> lead.alts \o mid.alts \o trail.alts,
         funs |-> lead.funs \o mid.funs \o trail.funs]

\* FunctionDef::into_intermediate, the FunctionDef::Spline arm
IntoIntermediateSpline(def, start_alt, end_alt) ==
    LET spline == SplineNew(def.points)
        atMin  == <<SplineMinX(spline), SplineEval(spline, SplineMinX(spline))>>
        atMax  == <<SplineMaxX(spline), SplineEval(spline, SplineMaxX(spline))>>
        lead   == IF ~IsSome(start_alt) \/ Unwrap(start_alt) < SplineMinX(spline)
                  THEN [alts |-> start_alt,
                        funs |-> <<ILinear(SplineDerivativeStart(spline), Some(atMin))>>]
                  ELSE [alts |-> <<>>, funs |-> <<>>]
        mid    == SplinePieces(SplinePolynomials(spline), 1, start_alt, end_alt)
        trail  == IF ~IsSome(end_alt) \/ Unwrap(end_alt) > SplineMaxX(spline)
                  THEN [alts |-> <<SplineMaxX(spline)>>,
                        funs |-> <<ILinear(SplineDerivativeEnd(spline), Some(atMax))>>]
                  ELSE [alts |-> <<>>, funs |-> <<>>]
    IN  [alts |-> lead.alts \o mid.alts \o trail.alts,
         funs |-> lead.funs \o mid.funs \o trail.funs]

\* FunctionDef::into_intermediate
IntoIntermediate(def, start_alt, end_alt) ==
    IF def.kind = "Linear"
    THEN IntoIntermediateLinear(def, start_alt)
    ELSE IntoIntermediateSpline(def, start_alt, end_alt)

\* interval_ends.get(0).cloned()
GetFirst(s) == IF Len(s) > 0 THEN Some(s[1]) ELSE None

\* the `while !interval_ends.is_empty()` loop of
\* generate_intermediate_function_defs
RECURSIVE LowerRest(_, _, _)
LowerRest(ends, defs, acc) ==
    IF Len(ends) = 0 THEN acc
    ELSE
        LET start == ends[1]
            rest  == Tail(ends)
            r     == IntoIntermediate(defs[1], Some(start), GetFirst(rest))
        IN  LowerRest(rest, Tail(defs),
                      [ends |-> acc.ends \o r.alts, funs |-> acc.funs \o r.funs])

\* VerticalProfileBuilder::generate_intermediate_function_defs
GenerateIntermediateFunctionDefs(ends, defs) ==
    LET r == IntoIntermediate(defs[1], None, GetFirst(ends))
    IN  LowerRest(ends, Tail(defs), [ends |-> r.alts, funs |-> r.funs])

----------------------------------------------------------------------------
(* VerticalProfileError and the results of build() *)

NoFixedPoint == [kind |-> "NoFixedPoint"]

FixedPointConflict(i1, i2, p1, p2, g) ==
    [kind |-> "FixedPointConflict", index1 |-> i1, index2 |-> i2,
     point1 |-> p1, point2 |-> p2, gradient |-> g]

OkUnit == [tag |-> "Ok"]

Err(e) == [tag |-> "Err", error |-> e]

\* a Rust panic: slice index out of bounds, expect() or unwrap() on a failure
Panic(msg) == [tag |-> "Panic", msg |-> msg]

----------------------------------------------------------------------------
(* VerticalProfileBuilder::fill_fixed_point *)

\* mutant: both comparisons are strict
InInterval_Strict(ends, index, x) ==
    /\ (index = 0 \/ ends[index] < x)
    /\ (index >= Len(ends) \/ ends[index + 1] > x)

\* `index.checked_sub(1).map_or(true, |ib| interval_ends[ib] <= x)
\*   && (index >= interval_ends.len() || interval_ends[index] >= x)`
\* (index is 0-based)
InInterval(ends, index, x) ==
    /\ (index = 0 \/ ends[index] <= x)
    /\ (index >= Len(ends) \/ ends[index + 1] >= x)

\* mutant: the difference is compared without its absolute value
LinearConflict_Signed(p1, p2, gradient) ==
    (p2[2] - p1[2]) - gradient * (p2[1] - p1[1]) > EPSILON

\* `((y2 - y1) - *gradient * (x2 - x1)).abs() > EPSILON`
LinearConflict(p1, p2, gradient) ==
    Abs((p2[2] - p1[2]) - gradient * (p2[1] - p1[1])) > EPSILON

\* mutant: the difference is compared without its absolute value
CubicConflict_Signed(poly, x, y) == y - PolyEval(poly, x) > EPSILON

\* `(y - poly.eval(x)).abs() > EPSILON`
CubicConflict(poly, x, y) == Abs(y - PolyEval(poly, x)) > EPSILON

\* `function_defs[i].get(x).map(|y| (x, y))`
PointAt(def, x) ==
    IF IsSome(Get(def, x)) THEN Some(<<x, Unwrap(Get(def, x))>>) ELSE None

\* mutant: an interval without a fixed point looks above before below
MatchLinear_AboveFirst(defs, index, point_below, point_above) ==
    LET def == defs[index + 1]
        fp  == def.fixed_point
        g   == def.gradient
    IN  IF IsSome(point_below) /\ IsSome(fp)
           /\ LinearConflict(Unwrap(point_below), Unwrap(fp), g)
        THEN [defs |-> defs,
              res  |-> Err(FixedPointConflict(index - 1, index, Unwrap(point_below),
                                              Unwrap(fp), Some(g)))]
        ELSE IF IsSome(fp) /\ IsSome(point_above)
                /\ LinearConflict(Unwrap(fp), Unwrap(point_above), g)
        THEN [defs |-> defs,
              res  |-> Err(FixedPointConflict(index, index + 1, Unwrap(fp),
                                              Unwrap(point_above), Some(g)))]
        ELSE IF ~IsSome(fp)
        THEN IF IsSome(point_above)
             THEN [defs |-> [defs EXCEPT ![index + 1].fixed_point = point_above],
                   res  |-> OkUnit]
             ELSE IF IsSome(point_below)
             THEN [defs |-> [defs EXCEPT ![index + 1].fixed_point = point_below],
                   res  |-> OkUnit]
             ELSE [defs |-> defs, res |-> Err(NoFixedPoint)]
        ELSE [defs |-> defs, res |-> OkUnit]

\* the `match &mut function_defs[index]` of fill_fixed_point, Linear arm
MatchLinear(defs, index, point_below, point_above) ==
    LET def == defs[index + 1]
        fp  == def.fixed_point
        g   == def.gradient
    IN  IF IsSome(point_below) /\ IsSome(fp)
           /\ LinearConflict(Unwrap(point_below), Unwrap(fp), g)
        THEN [defs |-> defs,
              res  |-> Err(FixedPointConflict(index - 1, index, Unwrap(point_below),
                                              Unwrap(fp), Some(g)))]
        ELSE IF IsSome(fp) /\ IsSome(point_above)
                /\ LinearConflict(Unwrap(fp), Unwrap(point_above), g)
        THEN [defs |-> defs,
              res  |-> Err(FixedPointConflict(index, index + 1, Unwrap(fp),
                                              Unwrap(point_above), Some(g)))]
        ELSE IF ~IsSome(fp)
        THEN IF IsSome(point_below)
             THEN [defs |-> [defs EXCEPT ![index + 1].fixed_point = point_below],
                   res  |-> OkUnit]
             ELSE IF IsSome(point_above)
             THEN [defs |-> [defs EXCEPT ![index + 1].fixed_point = point_above],
                   res  |-> OkUnit]
             ELSE [defs |-> defs, res |-> Err(NoFixedPoint)]
        ELSE [defs |-> defs, res |-> OkUnit]

\* mutant: the polynomial is not checked against the interval below
MatchCubic_BelowUnchecked(ends, defs, index, fv, point_below, point_above) ==
    LET poly == defs[index + 1].poly
    IN  IF IsSome(fv) /\ InInterval(ends, index, Unwrap(fv)[1])
           /\ CubicConflict(poly, Unwrap(fv)[1], Unwrap(fv)[2])
        THEN Err(FixedPointConflict(index, index, Unwrap(fv),
                 <<Unwrap(fv)[1], PolyEval(poly, Unwrap(fv)[1])>>, None))
        ELSE IF IsSome(point_above)
                /\ CubicConflict(poly, Unwrap(point_above)[1], Unwrap(point_above)[2])
        THEN Err(FixedPointConflict(index, index + 1,
                 <<Unwrap(point_above)[1], PolyEval(poly, Unwrap(point_above)[1])>>,
                 Unwrap(point_above), None))
        ELSE OkUnit

\* the `match &mut function_defs[index]` of fill_fixed_point, Cubic arm
MatchCubic(ends, defs, index, fv, point_below, point_above) ==
    LET poly == defs[index + 1].poly
    IN  IF IsSome(fv) /\ InInterval(ends, index, Unwrap(fv)[1])
           /\ CubicConflict(poly, Unwrap(fv)[1], Unwrap(fv)[2])
        THEN Err(FixedPointConflict(index, index, Unwrap(fv),
                 <<Unwrap(fv)[1], PolyEval(poly, Unwrap(fv)[1])>>, None))
        ELSE IF IsSome(point_below)
                /\ CubicConflict(poly, Unwrap(point_below)[1], Unwrap(point_below)[2])
        THEN Err(FixedPointConflict(index - 1, index, Unwrap(point_below),
                 <<Unwrap(point_below)[1], PolyEval(poly, Unwrap(point_below)[1])>>, None))
        ELSE IF IsSome(point_above)
                /\ CubicConflict(poly, Unwrap(point_above)[1], Unwrap(point_above)[2])
        THEN Err(FixedPointConflict(index, index + 1,
                 <<Unwrap(point_above)[1], PolyEval(poly, Unwrap(point_above)[1])>>,
                 Unwrap(point_above), None))
        ELSE OkUnit

\* `index.checked_sub(1).map_or(false, |index_below| ..has_fixed_point())`,
\* `(index + 1 < len) && function_defs[index + 1].has_fixed_point()` and
\* `!has_fixed_point_below && !has_fixed_point_above && !has_fixed_point`;
\* defs1 is function_defs after the fixed value was looked at
NoFixedPointAround(defs, defs1, index) ==
    /\ ~(index >= 1 /\ HasFixedPoint(defs[index]))
    /\ ~(index + 1 < Len(defs) /\ HasFixedPoint(defs[index + 2]))
    /\ ~HasFixedPoint(defs1[index + 1])

\* "if there was a fixed_value specified and it's in our interval, set it as
\* our fixed point"
AssignFixedValue(ends, defs, index, fv) ==
    IF IsSome(fv) /\ defs[index + 1].kind = "Linear"
       /\ InInterval(ends, index, Unwrap(fv)[1])
    THEN [defs EXCEPT ![index + 1].fixed_point = fv]
    ELSE defs

\* point_below and point_above, then the match on function_defs[index]
FillMatch(ends, defs, index, fv) ==
    IF \/ index >= 1 /\ index - 1 >= Len(ends)
       \/ index + 1 < Len(defs) /\ index >= Len(ends)
    THEN [defs |-> defs, res |-> Panic("index out of bounds")]
    ELSE IF defs[index + 1].kind = "Linear"
    THEN MatchLinear(defs, index,
            IF index >= 1 THEN PointAt(defs[index], ends[index]) ELSE None,
            IF index + 1 < Len(defs) THEN PointAt(defs[index + 2], ends[index + 1])
            ELSE None)
    ELSE [defs |-> defs,
          res  |-> MatchCubic(ends, defs, index, fv,
            IF index >= 1 THEN PointAt(defs[index], ends[index]) ELSE None,
            IF index + 1 < Len(defs) THEN PointAt(defs[index + 2], ends[index + 1])
            ELSE None)]

\* what follows the recursive call: its error is returned (the `?`), else the
\* rest of the function runs on the function_defs the call left
FillAfterRecursion(ends, rec, index, fv) ==
    IF rec.res # OkUnit THEN rec ELSE FillMatch(ends, rec.defs, index, fv)

\* fill_fixed_point(interval_ends, function_defs, index, fixed_value):
\* the function_defs as left by the call, and what the call returned.  An
\* interval_ends[..] that is out of bounds panics.
RECURSIVE FillFixedPoint(_, _, _, _)
\* mutant: no recursion, NoFixedPoint as soon as nothing is anchored around
FillFromAssigned_NoRecursion(ends, defs, defs1, index, fv) ==
    IF NoFixedPointAround(defs, defs1, index)
    THEN [defs |-> defs1, res |-> Err(NoFixedPoint)]
    ELSE FillMatch(ends, defs1, index, fv)

FillFromAssigned(ends, defs, defs1, index, fv) ==
    IF NoFixedPointAround(defs, defs1, index)
    THEN IF index + 1 < Len(defs)
         THEN FillAfterRecursion(ends, FillFixedPoint(ends, defs1, index + 1, fv),
                                 index, fv)
         ELSE [defs |-> defs1, res |-> Err(NoFixedPoint)]
    ELSE FillMatch(ends, defs1, index, fv)

FillFixedPoint(ends, defs, index, fv) ==
    IF IsSome(fv) /\ defs[index + 1].kind = "Linear"
       /\ index >= 1 /\ index - 1 >= Len(ends)
    THEN [defs |-> defs, res |-> Panic("index out of bounds")]
    ELSE FillFromAssigned(ends, defs, AssignFixedValue(ends, defs, index, fv), index, fv)

\* fill_fixed_points: `for index in 0..function_defs.len()`, stopping at the
\* first call that does not return Ok (the `?`)
RECURSIVE FillFixedPointsFrom(_, _, _, _)
FillFixedPointsNext(ends, r, index, fv) ==
    IF r.res # OkUnit THEN r ELSE FillFixedPointsFrom(ends, r.defs, index + 1, fv)

FillFixedPointsFrom(ends, defs, index, fv) ==
    IF index >= Len(defs) THEN [defs |-> defs, res |-> OkUnit]
    ELSE FillFixedPointsNext(ends, FillFixedPoint(ends, defs, index, fv), index, fv)

FillFixedPoints(ends, defs, fv) == FillFixedPointsFrom(ends, defs, 0, fv)

\* VerticalProfileBuilder::build, after generate_intermediate_function_defs
\* and fill_fixed_points
BuildFrom(ends, fill) ==
    IF fill.res # OkUnit THEN fill.res
    ELSE IF \E k \in 1..Len(fill.defs) : IntoFunction(fill.defs[k]).kind = "Panic"
    THEN Panic("should have a fixed point now")
    ELSE [tag |-> "Ok",
          profile |-> [altitude_interval_ends |-> ends,
                       interval_functions |->
                           [k \in 1..Len(fill.defs) |-> IntoFunction(fill.defs[k])]]]

\* the fill_fixed_points step of build
BuildFill(low, fv) == BuildFrom(low.ends, FillFixedPoints(low.ends, low.funs, fv))

\* VerticalProfileBuilder::build
Build(ends, defs, fv) == BuildFill(GenerateIntermediateFunctionDefs(ends, defs), fv)

----------------------------------------------------------------------------
(* Evaluation of a profile *)

\* slice::binary_search_by(|a| a.partial_cmp(&h).unwrap()): the loop of the
\* standard library on [left, right); `Ok(index) | Err(index)` keeps the index
\* whether or not an element equal to h was found
\* mutant: an element equal to h selects the interval above it
RECURSIVE BinarySearchLoop_UpperOnEqual(_, _, _, _)
BinarySearchLoop_UpperOnEqual(ends, h, left, right) ==
    IF left >= right THEN left
    ELSE LET mid == left + ((right - left) \div 2)
         IN  IF ends[mid + 1] < h
             THEN BinarySearchLoop_UpperOnEqual(ends, h, mid + 1, right)
             ELSE IF ends[mid + 1] > h
             THEN BinarySearchLoop_UpperOnEqual(ends, h, left, mid)
             ELSE mid + 1

RECURSIVE BinarySearchLoop(_, _, _, _)
BinarySearchLoop(ends, h, left, right) ==
    IF left >= right THEN left
    ELSE LET mid == left + ((right - left) \div 2)
         IN  IF ends[mid + 1] < h THEN BinarySearchLoop(ends, h, mid + 1, right)
             ELSE IF ends[mid + 1] > h THEN BinarySearchLoop(ends, h, left, mid)
             ELSE mid

BinarySearch(ends, h) == BinarySearchLoop(ends, h, 0, Len(ends))

\* VerticalFunction at h: a*h + b, or the cubic
VerticalFunctionEval(f, h) ==
    IF f.kind = "Linear" THEN f.a * h + f.b ELSE PolyEval(f.poly, h)

\* VerticalProfile::eval: the function of the interval the ordered search
\* over the interval ends selects
VerticalProfileEval(profile, h) ==
    VerticalFunctionEval(
        profile.interval_functions[BinarySearch(profile.altitude_interval_ends, h) + 1], h)

----------------------------------------------------------------------------
(* PressureFunction.  A pressure is kept as a term: the pressure of the    *)
(* fixed point times the factors the functions on the way have multiplied  *)
(* it by.  A factor whose argument is h - h0 = 0 is the floating-point 1.0 *)
(* (1 + a * 0 is 1, powf(1, e) is 1, exp(0) is 1, atan(0) is 0) and leaves *)
(* the term as it is; equal terms are equal pressures.                     *)

\* a pressure given as a number
PressureValue(p) == [nan |-> FALSE, root |-> p, fs |-> <<>>]

\* f64::NAN
NaN == [nan |-> TRUE, root |-> 0, fs |-> <<>>]

\* p * factor * factor ...
Times(p, factors) == IF p.nan THEN NaN ELSE [p EXCEPT !.fs = p.fs \o factors]

\* CubicPoly::factors: the sign of the discriminant tells three real roots
\* from one real root and an irreducible quadratic
Discriminant(poly) ==
    LET a == poly.c[4]
        b == poly.c[3]
        c == poly.c[2]
        d == poly.c[1]
    IN  18 * a * b * c * d - 4 * b * b * b * d + b * b * c * c
            - 4 * a * c * c * c - 27 * a * a * d * d

Factors(poly) ==
    IF Discriminant(poly) >= 0 THEN "ThreeLinear" ELSE "LinearAndQuadratic"

\* a Linear function is always given a Power function, a zero gradient
\* included
FromTemperatureFunction_AlwaysPower(temp_function, p0, h0) ==
    [kind |-> IF temp_function.kind = "Linear" THEN "Power"
              ELSE IF Factors(temp_function.poly) = "ThreeLinear"
                   THEN "TriplePower" ELSE "PowerWithAtan",
     p0   |-> p0,
     h0   |-> h0,
     temp |-> temp_function]

\* PressureFunction::from_temperature_function.  The parameters (lambda, a,
\* exp, ...) are functions of the temperature function and of h0, which the
\* record keeps in their place.
FromTemperatureFunction(temp_function, p0, h0) ==
    [kind |-> IF temp_function.kind = "Linear"
              THEN IF temp_function.a = 0 THEN "Exponential" ELSE "Power"
              ELSE IF Factors(temp_function.poly) = "ThreeLinear"
                   THEN "TriplePower" ELSE "PowerWithAtan",
     p0   |-> p0,
     h0   |-> h0,
     temp |-> temp_function]

\* -A / b, a / (a * h0 + b), 1 / (h0 - h1), ... are finite exactly when the
\* temperature function is not zero at h0
ParametersFinite(f) == VerticalFunctionEval(f.temp, f.h0) # 0

\* (1.0 + a[i] * (h - h0)).powf(exp[i])
PowFactor(f, i, dh) ==
    IF dh = 0 THEN <<>>
    ELSE <<[fn |-> "powf", i |-> i, temp |-> f.temp, h0 |-> f.h0, dh |-> dh]>>

\* (1.0 + b2 * (h - h0) + a2 * (h - h0) * (h - h0)).powf(exp2)
QuadFactor(f, dh) ==
    IF dh = 0 THEN <<>>
    ELSE <<[fn |-> "powf2", i |-> 2, temp |-> f.temp, h0 |-> f.h0, dh |-> dh]>>

\* (lambda * (h - h0)).exp()
ExpFactor(f, dh) ==
    IF dh = 0 THEN <<>>
    ELSE <<[fn |-> "exp", i |-> 1, temp |-> f.temp, h0 |-> f.h0, dh |-> dh]>>

\* (lambda * ((h - h0) / (a3 * (h - h0) + b3)).atan()).exp()
AtanFactor(f, dh) ==
    IF dh = 0 THEN <<>>
    ELSE <<[fn |-> "expatan", i |-> 3, temp |-> f.temp, h0 |-> f.h0, dh |-> dh]>>

FactorsAt(f, dh) ==
    CASE f.kind = "Exponential"   -> ExpFactor(f, dh)
      [] f.kind = "Power"         -> PowFactor(f, 1, dh)
      [] f.kind = "TriplePower"   ->
            PowFactor(f, 1, dh) \o PowFactor(f, 2, dh) \o PowFactor(f, 3, dh)
      [] f.kind = "PowerWithAtan" ->
            PowFactor(f, 1, dh) \o QuadFactor(f, dh) \o AtanFactor(f, dh)

\* mutant: the factors are taken at h instead of h - h0
PressureFunctionEval_FromZero(f, h) ==
    IF ~ParametersFinite(f) THEN NaN ELSE Times(f.p0, FactorsAt(f, h))

\* PressureFunction::eval
PressureFunctionEval(f, h) ==
    IF ~ParametersFinite(f) THEN NaN ELSE Times(f.p0, FactorsAt(f, h - f.h0))

----------------------------------------------------------------------------
(* PressureProfile *)

\* mutant: the interval below starts from the p0 of the interval above it
InsertBelow_NotPropagated(ends, funs, map, index) ==
    (index :> FromTemperatureFunction(funs[index + 1],
                  map[index + 1].p0,
                  ends[index + 1])) @@ map

\* from_temperature_profile, the body of the loop downwards: h0 is
\* altitude_interval_ends[index], p0 is map[index + 1].eval(h0)
InsertBelow(ends, funs, map, index) ==
    (index :> FromTemperatureFunction(funs[index + 1],
                  PressureFunctionEval(map[index + 1], ends[index + 1]),
                  ends[index + 1])) @@ map

\* for index in (0..=start_index_below).rev()
RECURSIVE FillBelow(_, _, _, _)
FillBelow(ends, funs, map, index) ==
    IF index < 0 THEN map
    ELSE FillBelow(ends, funs, InsertBelow(ends, funs, map, index), index - 1)

\* the body of the loop upwards: h0 is altitude_interval_ends[index - 1],
\* p0 is map[index - 1].eval(h0)
InsertAbove(ends, funs, map, index) ==
    (index :> FromTemperatureFunction(funs[index + 1],
                  PressureFunctionEval(map[index - 1], ends[index]),
                  ends[index])) @@ map

\* for index in start_index_above..interval_functions.len()
RECURSIVE FillAbove(_, _, _, _)
FillAbove(ends, funs, map, index) ==
    IF index >= Len(funs) THEN map
    ELSE FillAbove(ends, funs, InsertAbove(ends, funs, map, index), index + 1)

\* map.into_iter().map(|(_, fun)| fun).collect(): the values in key order
MapValues(map) ==
    [k \in 1..Cardinality(DOMAIN map) |->
        map[CHOOSE key \in DOMAIN map :
                Cardinality({other \in DOMAIN map : other < key}) = k - 1]]

\* the loop upwards is left out
FillAround_BelowOnly(ends, funs, map, start_index) ==
    FillBelow(ends, funs, map, start_index - 1)

\* the loops of from_temperature_profile around the interval of the fixed point
FillAround(ends, funs, map, start_index) ==
    IF start_index < Len(ends)
    THEN FillAbove(ends, funs, FillBelow(ends, funs, map, start_index - 1), start_index + 1)
    ELSE FillBelow(ends, funs, map, start_index - 1)

FromStartIndex(ends, funs, p0, h0, start_index) ==
    [altitude_interval_ends |-> ends,
     pressure_functions |->
        MapValues(FillAround(ends, funs,
            start_index :> FromTemperatureFunction(funs[start_index + 1], p0, h0),
            start_index))]

\* PressureProfile::from_temperature_profile
FromTemperatureProfile(temp, p0, h0) ==
    FromStartIndex(temp.altitude_interval_ends, temp.interval_functions,
                   PressureValue(p0), h0, BinarySearch(temp.altitude_interval_ends, h0))

\* PressureProfile::eval
PressureProfileEval(profile, h) ==
    PressureFunctionEval(
        profile.pressure_functions[BinarySearch(profile.altitude_interval_ends, h) + 1], h)

----------------------------------------------------------------------------
(* AtmosphereDef and Atmosphere *)

FunctionDefWithAlt(altitude, function) == [altitude |-> altitude, function |-> function]

\* the builder calls of from_def for one profile, and build()
BuildProfile(first_function, fixed_point, next_functions) ==
    Build([k \in 1..Len(next_functions) |-> next_functions[k].altitude],
          <<first_function>> \o [k \in 1..Len(next_functions) |-> next_functions[k].function],
          fixed_point)

\* the humidity profile is not unwrapped: a failed build leaves it empty
FromBuilt_HumidityUnchecked(def, temperature, humidity) ==
    IF temperature.tag # "Ok" THEN Panic("temperature: unwrap on an Err value")
    ELSE [tag |-> "Ok",
          pressure |-> FromTemperatureProfile(temperature.profile,
                           def.pressure.pressure, def.pressure.altitude),
          temperature |-> temperature.profile,
          humidity |-> IF humidity.tag = "Ok" THEN humidity.profile
                       ELSE [altitude_interval_ends |-> <<>>, interval_functions |-> <<>>]]

\* Atmosphere::from_def after the two builds: unwrap() panics on an Err
FromBuilt(def, temperature, humidity) ==
    IF temperature.tag # "Ok" THEN Panic("temperature: unwrap on an Err value")
    ELSE IF humidity.tag # "Ok" THEN Panic("humidity: unwrap on an Err value")
    ELSE [tag |-> "Ok",
          pressure |-> FromTemperatureProfile(temperature.profile,
                           def.pressure.pressure, def.pressure.altitude),
          temperature |-> temperature.profile,
          humidity |-> humidity.profile]

\* Atmosphere::from_def
FromDef(def) ==
    FromBuilt(def,
        BuildProfile(def.first_temperature_function, def.temperature_fixed_point,
                     def.next_functions),
        BuildProfile(def.first_humidity_function, def.humidity_fixed_point,
                     def.next_humidity_functions))

\* AtmosphereDef::us_76, temperatures in units of 1e-4 K
Us76 ==
    [pressure |-> [altitude |-> 0, pressure |-> 101325],
     first_temperature_function |-> LinearDef(-65),
     next_functions |-> << FunctionDefWithAlt(11000, LinearDef(0)),
                           FunctionDefWithAlt(20000, LinearDef(10)),
                           FunctionDefWithAlt(32000, LinearDef(28)),
                           FunctionDefWithAlt(47000, LinearDef(0)),
                           FunctionDefWithAlt(51000, LinearDef(-28)),
                           FunctionDefWithAlt(71000, LinearDef(-20)),
                           FunctionDefWithAlt(84852, LinearDef(0)) >>,
     temperature_fixed_point |-> Some(<<0, 2880000>>),
     first_humidity_function |-> LinearDef(0),
     next_humidity_functions |-> <<>>,
     humidity_fixed_point |-> Some(<<0, 0>>)]

----------------------------------------------------------------------------
(* Inputs *)

\* a builder holds at most this many segments
MaxSegments == 3

\* altitudes given to with_next_function and with_fixed_value
Alts == 0..6

\* values given to with_fixed_value: the values of the spline at the
\* altitudes 1 and 3, and one unit more
FixedYs == {61, 62, 156, 157}

Gradients == {0, 2}

\* control points of the spline segment: knots at 1, 2 and 4, so that Alts
\* has altitudes below, on, between and above the knots.  The cubic of the
\* first piece, 61 + 54 t - 2 t^3, has three real roots; the cubic of the
\* second, 113 + 48 t - 6 t^2 + t^3, has one.
SplinePoints == << <<1, 61>>, <<2, 113>>, <<4, 193>> >>

FunDefs == {LinearDef(g) : g \in Gradients} \cup {SplineDef(SplinePoints)}

----------------------------------------------------------------------------
(* VerticalProfileBuilder: the operations *)

\* VerticalProfileBuilder::new(first_fun)
Init ==
    /\ pc = "builder"
    /\ interval_ends = <<>>
    /\ function_defs \in {<<f>> : f \in FunDefs}
    /\ fixed_value = None
    /\ lowered = None
    /\ filled = None
    /\ result = None
    /\ query = None
    /\ atm_def = None
    /\ atmosphere = None
    /\ ExtIdle

\* VerticalProfileBuilder::with_next_function(altitude, function)
WithNextFunction(altitude, function) ==
    /\ pc = "builder"
    /\ Len(function_defs) < MaxSegments
    /\ interval_ends' = Append(interval_ends, altitude)
    /\ function_defs' = Append(function_defs, function)
    /\ UNCHANGED <<pc, fixed_value, lowered, filled, result, query, atm_def, atmosphere>>
    /\ UNCHANGED ext_vars

\* VerticalProfileBuilder::with_fixed_value(altitude, val)
WithFixedValue(altitude, val) ==
    /\ pc = "builder"
    /\ fixed_value' = Some(<<altitude, val>>)
    /\ UNCHANGED <<pc, interval_ends, function_defs, lowered, filled, result, query,
                   atm_def, atmosphere>>
    /\ UNCHANGED ext_vars

\* what build() leaves: the lowered definitions, the anchored definitions
\* (when fill_fixed_points returned Ok) and the returned value
BuildOutcome(low, fill) ==
    [lowered |-> low,
     filled  |-> IF fill.res = OkUnit THEN Some(fill.defs) ELSE None,
     result  |-> BuildFrom(low.ends, fill)]

BuildTrace(low, fv) == BuildOutcome(low, FillFixedPoints(low.ends, low.funs, fv))

\* VerticalProfileBuilder::build(self)
DoBuild ==
    /\ pc = "builder"
    /\ pc' = "built"
    /\ \E out \in {BuildTrace(GenerateIntermediateFunctionDefs(interval_ends, function_defs),
                              fixed_value)} :
          /\ lowered' = Some(out.lowered)
          /\ filled' = out.filled
          /\ result' = Some(out.result)
    /\ UNCHANGED <<interval_ends, function_defs, fixed_value, query, atm_def, atmosphere>>
    /\ UNCHANGED ext_vars

\* VerticalProfile::eval(h) on the profile build() returned
EvalProfile(h) ==
    /\ pc = "built"
    /\ Unwrap(result).tag = "Ok"
    /\ query' = Some([h |-> h, value |-> VerticalProfileEval(Unwrap(result).profile, h)])
    /\ UNCHANGED <<pc, interval_ends, function_defs, fixed_value, lowered, filled, result,
                   atm_def, atmosphere>>
    /\ UNCHANGED ext_vars

\* "boundaries must be supplied in ascending altitude order": the altitudes
\* above the last boundary given so far
AscendingAlts ==
    {a \in Alts : Len(interval_ends) = 0 \/ a > interval_ends[Len(interval_ends)]}

Next ==
    \/ \E altitude \in AscendingAlts, function \in FunDefs :
            WithNextFunction(altitude, function)
    \/ \E altitude \in Alts, val \in FixedYs : WithFixedValue(altitude, val)
    \/ DoBuild
    \/ \E h \in Alts : EvalProfile(h)

Spec == Init /\ [][Next]_vars

----------------------------------------------------------------------------
(* Atmosphere::from_def: the definitions it is given *)

\* altitudes of the pressure fixed point: at or below the lowest boundary,
\* in the middle, at or above the highest
PressureAltitudes == {0, 3, 6}

\* temperature fixed points: none, on the spline and within EPSILON of it
TemperatureFixedPoints == {None, Some(<<3, 156>>), Some(<<3, 157>>)}

\* humidity fixed points: the one of us_76, and none
HumidityFixedPoints == {Some(<<0, 0>>), None}

\* next_functions: up to MaxSegments - 1 segments at ascending altitudes
NextFunctions ==
    UNION {{s \in [1..n -> {FunctionDefWithAlt(a, f) : a \in Alts, f \in FunDefs}] :
                \A k \in 1..(n - 1) : s[k].altitude < s[k + 1].altitude} :
           n \in 0..(MaxSegments - 1)}

AtmosphereDefs ==
    {Us76} \cup
    {[pressure |-> [altitude |-> h0, pressure |-> 101325],
      first_temperature_function |-> first,
      next_functions |-> next,
      temperature_fixed_point |-> tfp,
      first_humidity_function |-> LinearDef(0),
      next_humidity_functions |-> <<>>,
      humidity_fixed_point |-> hfp] :
        h0 \in PressureAltitudes, first \in FunDefs, next \in NextFunctions,
        tfp \in TemperatureFixedPoints, hfp \in HumidityFixedPoints}

\* an AtmosphereDef, before from_def
InitAtm ==
    /\ pc = "def"
    /\ atm_def \in AtmosphereDefs
    /\ atmosphere = None
    /\ query = None
    /\ interval_ends = <<>>
    /\ function_defs = <<>>
    /\ fixed_value = None
    /\ lowered = None
    /\ filled = None
    /\ result = None
    /\ ExtIdle

\* Atmosphere::from_def(def)
NewAtmosphere ==
    /\ pc = "def"
    /\ pc' = "atm"
    /\ atmosphere' = Some(FromDef(atm_def))
    /\ UNCHANGED <<atm_def, query, interval_ends, function_defs, fixed_value,
                   lowered, filled, result>>
    /\ UNCHANGED ext_vars

\* Atmosphere::temperature(h)
AtmTemperature(h) ==
    /\ pc = "atm"
    /\ Unwrap(atmosphere).tag = "Ok"
    /\ query' = Some([fn |-> "temperature", h |-> h,
                      value |-> VerticalProfileEval(Unwrap(atmosphere).temperature, h)])
    /\ UNCHANGED <<pc, atm_def, atmosphere, interval_ends, function_defs, fixed_value,
                   lowered, filled, result>>
    /\ UNCHANGED ext_vars

\* Atmosphere::pressure(h)
AtmPressure(h) ==
    /\ pc = "atm"
    /\ Unwrap(atmosphere).tag = "Ok"
    /\ query' = Some([fn |-> "pressure", h |-> h,
                      value |-> PressureProfileEval(Unwrap(atmosphere).pressure, h)])
    /\ UNCHANGED <<pc, atm_def, atmosphere, interval_ends, function_defs, fixed_value,
                   lowered, filled, result>>
    /\ UNCHANGED ext_vars

NextAtm ==
    \/ NewAtmosphere
    \/ \E h \in Alts : AtmTemperature(h)
    \/ \E h \in Alts : AtmPressure(h)

SpecAtm == InitAtm /\ [][NextAtm]_vars

\* from_def and then the pressure only
NextPressure ==
    \/ NewAtmosphere
    \/ \E h \in Alts : AtmPressure(h)

SpecPressure == InitAtm /\ [][NextPressure]_vars

----------------------------------------------------------------------------
(* Environment::cast_ray_target, src/src/environment.rs.                   *)
(*                                                                         *)
(* Launch angles.  Every angle the bisection touches is -1.5 + 3 * n/2^33  *)
(* for a natural n <= 2^33: the bracket ends are -1.5 and 1.5, and each    *)
(* midpoint halves a difference of two such angles.  These numbers and     *)
(* their sums and differences have at most 35 significant bits, so the f64 *)
(* operations of the loop are exact on them.  An angle is the pair         *)
(* <<hi, lo>> with n = hi * Limb + lo and 0 <= lo < Limb.                  *)

\* 2^17: the weight of the high part of an angle
Limb == 131072

\* let (mut min_ang, mut max_ang) = (-1.5, 1.5)
MinAngle == <<0, 0>>

MaxAngle == <<65536, 0>>

\* let epsilon = 1e-9: 2^33 * 1e-9 / 3 = 2.86..., so for a whole number n of
\* grid steps  n steps > 1e-9  iff  n > 2  and  n steps <= 1e-9  iff  n <= 2
epsilon == 2

Carry(hi, lo) == <<hi + (lo \div Limb), lo % Limb>>

AngAdd(a, b) == <<a[1] + b[1], a[2] + b[2]>>

\* b - a for a <= b
AngSub(b, a) ==
    IF b[2] >= a[2] THEN <<b[1] - a[1], b[2] - a[2]>>
    ELSE <<b[1] - a[1] - 1, b[2] + Limb - a[2]>>

AngLess(a, b) == a[1] < b[1] \/ (a[1] = b[1] /\ a[2] < b[2])

AngLeq(a, b) == ~AngLess(b, a)

\* |a - b|
AngDist(a, b) == IF AngLess(a, b) THEN AngSub(b, a) ELSE AngSub(a, b)

\* 0.5 * s for a sum s of two angles
AngHalf(s) == Carry(s[1] \div 2, ((s[1] % 2) * Limb + s[2]) \div 2)

\* max_ang - min_ang > epsilon
WiderThanEpsilon(lo, hi) ==
    LET w == AngSub(hi, lo) IN w[1] > 0 \/ w[2] > epsilon

\* a quarter of the way up instead of the middle
CurAng_Quarter(lo, hi) == AngHalf(AngAdd(lo, AngHalf(AngAdd(lo, hi))))

\* let cur_ang = 0.5 * (min_ang + max_ang)
CurAng(lo, hi) == AngHalf(AngAdd(lo, hi))

\* keeps the half on the wrong side of the midpoint
KeepHalf_Swapped(above, cur_ang, lo, hi) ==
    IF above THEN <<cur_ang, hi>> ELSE <<lo, cur_ang>>

\* if h > tgt_h { max_ang = cur_ang } else { min_ang = cur_ang }
KeepHalf(above, cur_ang, lo, hi) ==
    IF above THEN <<lo, cur_ang>> ELSE <<cur_ang, hi>>

(* The response of the altitude at tgt_dist to the launch angle.  The ray  *)
(* is integrated through the atmosphere; the loop uses only whether the    *)
(* altitude it reaches is above tgt_h.  A response says for which launch   *)
(* angles it is:                                                           *)
(*   Increasing  above exactly for the angles beyond root, the angle that  *)
(*               reaches tgt_h: a strictly increasing altitude             *)
(*   Decreasing  above exactly for the angles before root                  *)
(*   Band        above exactly for the angles of [from, to]                *)
(*   Above       above for every angle                                     *)
(*   Below       above for no angle (a NaN altitude compares so too)       *)
Increasing(root) == [kind |-> "Increasing", root |-> root]

Decreasing(root) == [kind |-> "Decreasing", root |-> root]

Band(from, to) == [kind |-> "Band", from |-> from, to |-> to]

\* ray.h_at_dist(tgt_dist) > tgt_h  for the ray cast at cur_ang
HAbove(response, cur_ang) ==
    CASE response.kind = "Increasing" -> AngLess(response.root, cur_ang)
      [] response.kind = "Decreasing" -> AngLess(cur_ang, response.root)
      [] response.kind = "Band" ->
            AngLeq(response.from, cur_ang) /\ AngLeq(cur_ang, response.to)
      [] response.kind = "Above" -> TRUE
      [] response.kind = "Below" -> FALSE

\* self.cast_ray(start_h, start_ang, false)
CastRay(shape, start_h, start_ang) ==
    [kind |-> "Ray", shape |-> shape, start_h |-> start_h, start_ang |-> start_ang]

----------------------------------------------------------------------------
(* f64 arithmetic (flat::Line, the atmosphere of layers).  A               *)
(* finite f64 is (-1)^neg * bits * 2^exp, where bits is a binary numeral   *)
(* (most significant digit first, no leading zero, <<>> for zero) of at    *)
(* most Mantissa digits.  Each operation computes the exact result and     *)
(* rounds it to the nearest such number, ties to the even one, as IEEE 754 *)
(* does.  Overflow and subnormal numbers are out of reach of the inputs    *)
(* used here and are not modelled; signed zeros are not told apart.        *)

\* the significand of an f64 has 53 binary digits
Mantissa == 53

Finite(neg, bits, exp) ==
    [class |-> "finite", neg |-> neg /\ bits # <<>>, bits |-> bits,
     exp |-> IF bits = <<>> THEN 0 ELSE exp]

Infinite(neg) == [class |-> "inf", neg |-> neg]

NotANumber == [class |-> "nan"]

\* the numeral without its leading zeros
StripZeros(bits) ==
    LET ones == {i \in 1..Len(bits) : bits[i] = 1}
    IN  IF ones = {} THEN <<>>
        ELSE SubSeq(bits, CHOOSE i \in ones : \A j \in ones : i <= j, Len(bits))

RECURSIVE IntBits(_)
IntBits(n) == IF n = 0 THEN <<>> ELSE IntBits(n \div 2) \o <<n % 2>>

Zeros(k) == [i \in 1..k |-> 0]

\* bits * 2^exp written with the exponent e <= exp, in len digits
Align(bits, exp, e, len) ==
    LET shifted == bits \o Zeros(exp - e)
    IN  Zeros(len - Len(shifted)) \o shifted

\* the carry into digit i of a + b, for numerals of one length
CarryInto(a, b, i) ==
    \E j \in (i + 1)..Len(a) :
        /\ a[j] + b[j] = 2
        /\ \A m \in (i + 1)..(j - 1) : a[m] + b[m] = 1

\* a + b for numerals of one length
AddBits(a, b) ==
    [i \in 1..(Len(a) + 1) |->
        IF i = 1 THEN (IF CarryInto(a, b, 0) THEN 1 ELSE 0)
        ELSE (a[i - 1] + b[i - 1] + (IF CarryInto(a, b, i - 1) THEN 1 ELSE 0)) % 2]

\* the borrow from digit i of a - b
BorrowFrom(a, b, i) ==
    \E j \in (i + 1)..Len(a) :
        /\ a[j] < b[j]
        /\ \A m \in (i + 1)..(j - 1) : a[m] = b[m]

\* a - b for numerals of one length, a >= b
SubBits(a, b) ==
    [i \in 1..Len(a) |->
        (a[i] - b[i] - (IF BorrowFrom(a, b, i) THEN 1 ELSE 0) + 2) % 2]

\* a < b for numerals of one length
LessBits(a, b) ==
    \E j \in 1..Len(a) : a[j] < b[j] /\ \A m \in 1..(j - 1) : a[m] = b[m]

\* a + b for numerals of any lengths
AddNat(a, b) ==
    LET len == IF Len(a) < Len(b) THEN Len(b) ELSE Len(a)
    IN  StripZeros(AddBits(Align(a, 0, 0, len), Align(b, 0, 0, len)))

Incr(bits) == AddNat(bits, <<1>>)

\* round to nearest, ties to even
RoundUp(bits) ==
    /\ bits[Mantissa + 1] = 1
    /\ \/ bits[Mantissa] = 1
       \/ \E i \in (Mantissa + 2)..Len(bits) : bits[i] = 1

Round(neg, digits, exp) ==
    LET bits == StripZeros(digits)
        keep == SubSeq(bits, 1, Mantissa)
    IN  IF Len(bits) <= Mantissa THEN Finite(neg, bits, exp)
        ELSE Finite(neg, IF RoundUp(bits) THEN Incr(keep) ELSE keep,
                    exp + Len(bits) - Mantissa)

FromInt(n) == Finite(n < 0, IntBits(Abs(n)), 0)

Neg(f) ==
    CASE f.class = "finite" -> Finite(~f.neg, f.bits, f.exp)
      [] f.class = "inf" -> Infinite(~f.neg)
      [] f.class = "nan" -> f

\* 2^i modulo d
RECURSIVE PowMod(_, _)
PowMod(i, d) ==
    IF i = 0 THEN 1 % d
    ELSE LET h == PowMod(i \div 2, d)
         IN  (((h * h) % d) * (IF i % 2 = 1 THEN 2 ELSE 1)) % d

\* what is left of r / d after i digits behind the binary point
Remainder(r, d, i) == (r * PowMod(i, d)) % d

\* digit i of r / d behind the binary point, for r < d
Digit(r, d, i) == (2 * Remainder(r, d, i - 1)) \div d

\* digits behind the binary point that a quotient of two whole numbers is
\* computed to before it is rounded: a significand, two more, and the
\* leading zeros of a quotient below one
QuotientDigits == Mantissa + 2 + 31

\* n / d for whole numbers n and d
DivInt(n, d) ==
    IF d = 0 THEN (IF n = 0 THEN NotANumber ELSE Infinite(n < 0))
    ELSE LET r == Abs(n) % Abs(d)
             rest == IF Remainder(r, Abs(d), QuotientDigits) = 0 THEN 0 ELSE 1
             bits == IntBits(Abs(n) \div Abs(d))
                         \o [i \in 1..QuotientDigits |-> Digit(r, Abs(d), i)]
                         \o <<rest>>
         IN  Round((n < 0) # (d < 0), bits, 0 - (QuotientDigits + 1))

\* bits * k for a natural number k
RECURSIVE MulBits(_, _)
MulBits(bits, k) ==
    IF k = 0 THEN <<>>
    ELSE LET half == MulBits(bits, k \div 2)
         IN  IF half = <<>> THEN (IF k % 2 = 1 THEN bits ELSE <<>>)
             ELSE IF k % 2 = 1 THEN AddNat(half \o <<0>>, bits)
             ELSE half \o <<0>>

\* f * k for a whole number k
MulInt(f, k) ==
    CASE f.class = "nan" -> NotANumber
      [] f.class = "inf" -> IF k = 0 THEN NotANumber ELSE Infinite(f.neg # (k < 0))
      [] f.class = "finite" -> Round(f.neg # (k < 0), MulBits(f.bits, Abs(k)), f.exp)

AddFinite(f, g) ==
    LET e == IF f.exp < g.exp THEN f.exp ELSE g.exp
        lf == Len(f.bits) + f.exp - e
        lg == Len(g.bits) + g.exp - e
        len == IF lf < lg THEN lg ELSE lf
        a == Align(f.bits, f.exp, e, len)
        b == Align(g.bits, g.exp, e, len)
    IN  IF f.bits = <<>> THEN g
        ELSE IF g.bits = <<>> THEN f
        ELSE IF f.neg = g.neg THEN Round(f.neg, AddBits(a, b), e)
        ELSE IF LessBits(a, b) THEN Round(g.neg, SubBits(b, a), e)
        ELSE Round(f.neg, SubBits(a, b), e)

\* f + g
Add(f, g) ==
    CASE f.class = "nan" \/ g.class = "nan" -> NotANumber
      [] f.class = "inf" /\ g.class = "inf" ->
            IF f.neg = g.neg THEN f ELSE NotANumber
      [] f.class = "inf" /\ g.class = "finite" -> f
      [] f.class = "finite" /\ g.class = "inf" -> g
      [] f.class = "finite" /\ g.class = "finite" -> AddFinite(f, g)

\* f - g
Sub(f, g) == Add(f, Neg(g))

\* f == g
Eq(f, g) ==
    CASE f.class = "nan" \/ g.class = "nan" -> FALSE
      [] f.class = "inf" \/ g.class = "inf" -> f = g
      [] OTHER -> Sub(f, g).bits = <<>>

\* |f| < 2^k
Below(f, k) == f.class = "finite" /\ (f.bits = <<>> \/ Len(f.bits) + f.exp <= k)

----------------------------------------------------------------------------
(* flat::Line, src/src/paths/flat.rs                                       *)

FlatLine(a, b) == [kind |-> "Line", shape |-> "Flat", a |-> a, b |-> b]

\* the line through the first point only: intercept h1 without the slope term
FromTwoPoints_Horizontal(h1, x1, h2, x2) == FlatLine(FromInt(0), FromInt(h1))

\* Line::from_two_points
FromTwoPoints(h1, x1, h2, x2) ==
    LET a == DivInt(h2 - h1, x2 - x1)
        b == Sub(FromInt(h1), MulInt(a, x1))
    IN  FlatLine(a, b)

\* Line::h_at_dist
HAtDist(line, dist) == Add(MulInt(line.a, dist), line.b)

\* Line::angle_at_dist: the arc tangent of the slope, kept as a term
Atan(f) == [atan |-> f]

AngleAtDist(line, dist) == Atan(line.a)

\* a == b for two angles: a NaN is equal to nothing
AngleEq(a, b) == a.atan.class # "nan" /\ a = b

\* spherical::Line::from_two_points: the trigonometry is not evaluated
SphericalLine(h1, phi1, h2, phi2) ==
    [kind |-> "Line", shape |-> "Spherical",
     h1 |-> h1, phi1 |-> phi1, h2 |-> h2, phi2 |-> phi2]

----------------------------------------------------------------------------
(* The specification of Environment::cast_ray_target.                      *)
(* pc: "target" (the arguments are chosen), "bisect" (inside the while     *)
(* loop), "returned" (the path is returned and may be queried).            *)

\* EarthShape
Flat == [shape |-> "Flat"]

Spherical(radius) == [shape |-> "Spherical", radius |-> radius]

Shapes == {Flat, Spherical(6378000)}

\* start_h, tgt_h in metres
Altitudes == {0, 1, 7}

\* tgt_dist in metres
Distances == {0, 4, 25, 49}

\* the angles that reach tgt_h: both ends of the bracket, first midpoints,
\* angles next to an end, and angles between two neighbouring midpoints
Roots ==
    {MinAngle, MaxAngle, <<32768, 0>>, <<24576, 0>>, <<0, 1>>, <<65535, 131071>>,
     <<21845, 43691>>, <<40000, 77777>>, <<40000, 77778>>}

Responses ==
    {Increasing(root) : root \in Roots}
        \cup {Decreasing(<<24576, 0>>), Decreasing(<<21845, 43691>>)}
        \cup {Band(<<16384, 0>>, <<49152, 0>>), Band(<<40000, 77777>>, <<40000, 77778>>),
              Band(<<21845, 43691>>, MaxAngle)}
        \cup {[kind |-> "Above"], [kind |-> "Below"]}

Target(shape, start_h, tgt_h, tgt_dist, straight, response) ==
    [shape |-> shape, start_h |-> start_h, tgt_h |-> tgt_h, tgt_dist |-> tgt_dist,
     straight |-> straight, response |-> response]

\* the calls of cast_ray_target that are modelled
Targets ==
    {Target(shape, start_h, tgt_h, tgt_dist, TRUE, None) :
        shape \in Shapes, start_h \in Altitudes, tgt_h \in Altitudes,
        tgt_dist \in Distances}
    \cup {Target(shape, 0, 7, 49, FALSE, response) :
        shape \in Shapes, response \in Responses}

InitTarget ==
    /\ pc = "target"
    /\ target \in Targets
    /\ min_ang = None
    /\ max_ang = None
    /\ integrations = 0
    /\ path = None
    /\ query = None
    /\ BuilderIdle
    /\ AtmIdle
    /\ RayIdle
    /\ StepperIdle
    /\ CallsIdle
    /\ LayersIdle
    /\ FillIdle

\* if straight { match self.shape { ... from_two_points ... } }
StraightLine(t) ==
    IF t.shape.shape = "Flat"
    THEN FromTwoPoints(t.start_h, 0, t.tgt_h, t.tgt_dist)
    ELSE SphericalLine(t.start_h, 0, t.tgt_h,
                       [num |-> t.tgt_dist, den |-> t.shape.radius])

CastStraight ==
    /\ pc = "target"
    /\ target.straight
    /\ path' = Some(StraightLine(target))
    /\ pc' = "returned"
    /\ UNCHANGED <<target, min_ang, max_ang, integrations, query>>
    /\ UNCHANGED target_rest

\* let (mut min_ang, mut max_ang) = (-1.5, 1.5)
BisectStart ==
    /\ pc = "target"
    /\ ~target.straight
    /\ min_ang' = MinAngle
    /\ max_ang' = MaxAngle
    /\ pc' = "bisect"
    /\ UNCHANGED <<target, integrations, path, query>>
    /\ UNCHANGED target_rest

\* one pass of the body of  while max_ang - min_ang > epsilon
BisectStep ==
    /\ pc = "bisect"
    /\ WiderThanEpsilon(min_ang, max_ang)
    /\ LET cur_ang == CurAng(min_ang, max_ang)
           kept == KeepHalf(HAbove(target.response, cur_ang), cur_ang, min_ang, max_ang)
       IN  /\ min_ang' = kept[1]
           /\ max_ang' = kept[2]
    /\ integrations' = integrations + 1
    /\ UNCHANGED <<pc, target, path, query>>
    /\ UNCHANGED target_rest

\* self.cast_ray(start_h, 0.5 * (min_ang + max_ang), straight)
BisectReturn ==
    /\ pc = "bisect"
    /\ ~WiderThanEpsilon(min_ang, max_ang)
    /\ path' = Some(CastRay(target.shape, target.start_h, CurAng(min_ang, max_ang)))
    /\ pc' = "returned"
    /\ UNCHANGED <<target, min_ang, max_ang, integrations, query>>
    /\ UNCHANGED target_rest

IsFlatLine(p) == IsSome(p) /\ Unwrap(p).kind = "Line" /\ Unwrap(p).shape = "Flat"

\* the distances a returned line is asked at
QueryDistances == Distances \cup {10}

\* path.h_at_dist(dist) on the returned flat line
LineHAtDist(dist) ==
    /\ pc = "returned"
    /\ IsFlatLine(path)
    /\ query' = Some([fn |-> "h_at_dist", h |-> dist, value |-> HAtDist(Unwrap(path), dist)])
    /\ UNCHANGED <<pc, target_vars>>
    /\ UNCHANGED target_rest

\* path.angle_at_dist(dist) on the returned flat line
LineAngleAtDist(dist) ==
    /\ pc = "returned"
    /\ IsFlatLine(path)
    /\ query' = Some([fn |-> "angle_at_dist", h |-> dist,
                      value |-> AngleAtDist(Unwrap(path), dist)])
    /\ UNCHANGED <<pc, target_vars>>
    /\ UNCHANGED target_rest

NextTarget ==
    \/ CastStraight
    \/ BisectStart
    \/ BisectStep
    \/ BisectReturn
    \/ \E dist \in QueryDistances : LineHAtDist(dist)
    \/ \E dist \in QueryDistances : LineAngleAtDist(dist)

SpecTarget == InitTarget /\ [][NextTarget]_vars

\* a call that entered the bisection runs on until it returns
SpecTargetFair ==
    SpecTarget /\ WF_vars(BisectStart) /\ WF_vars(BisectStep) /\ WF_vars(BisectReturn)

----------------------------------------------------------------------------
(* spherical::Ray::state_at_dist, src/src/paths/spherical.rs.              *)
(* Distances are whole metres, on which the additions and subtractions of  *)
(* the function are exact.  The altitude h and the slope dh of a RayState  *)
(* are terms: the start value, or what the integrator made of the h and dh *)
(* before a step of a given length.  The integrator and the atmosphere are *)
(* deterministic, so equal terms are equal numbers.                        *)
(* pc: "ray" (before or inside the while loop), "ray_done" (returned).     *)

\* the largest |dist| asked for
MaxDist == 20

RayDists == (0 - MaxDist)..MaxDist

\* let def_step = 5.0
def_step == 5

\* let tgt_dist = dist.abs()
TgtDist(dist) == Abs(dist)

\* integrator.propagate_in_place(&mut state, .., step): the derivative of x
\* is dx = 1.0, so x advances by the step
Propagate(state, step) == [x |-> state.x + step]

\* mutant: the loop without the margin of one step
KeepStepping_NoMargin(x, tgt_dist) == x < tgt_dist

\* while state.x < tgt_dist - def_step
KeepStepping(x, tgt_dist) == x < tgt_dist - def_step

\* start altitudes and start slopes of the rays
Rays == [start_h : {0, 100}, start_dh : {0 - 1, 0, 1}]

\* a start value of h or dh
Start(v) == [fn |-> "start", v |-> v]

\* what the step of the integrator made of h (c = "h") or dh (c = "dh")
Rk4(c, state, step) == [fn |-> c, h |-> state.h, dh |-> state.dh, step |-> step]

\* integrator.propagate_in_place(&mut state, derivative, step) on the whole
\* RayState
Integrate(state, step) ==
    [x |-> Propagate([x |-> state.x], step).x,
     h |-> Rk4("h", state, step),
     dh |-> Rk4("dh", state, step)]

\* mutant: the slope keeps its sign for a negative dist
InitialState_SlopeKept(r, dist) ==
    [x |-> 0, h |-> Start(r.start_h), dh |-> Start(r.start_dh)]

\* let mut state = RayState { x: 0.0, h: self.start_h,
\*     dh: if dist >= 0.0 { self.start_dh } else { -self.start_dh } }
InitialState(r, dist) ==
    [x |-> 0,
     h |-> Start(r.start_h),
     dh |-> Start(IF dist >= 0 THEN r.start_dh ELSE 0 - r.start_dh)]

\* the while loop and the last step of spherical Ray::state_at_dist, from
\* state on
RECURSIVE SphericalLoop(_, _)
SphericalLoop(state, tgt_dist) ==
    IF KeepStepping(state.x, tgt_dist)
    THEN SphericalLoop(Integrate(state, def_step), tgt_dist)
    ELSE Integrate(state, tgt_dist - state.x)

\* spherical Ray::state_at_dist(dist) as a function
SphericalStateAtDist(r, dist) == SphericalLoop(InitialState(r, dist), TgtDist(dist))

InitRay ==
    /\ pc = "ray"
    /\ ray \in Rays
    /\ ray_dist \in RayDists
    /\ ray_state = InitialState(ray, ray_dist)
    /\ steps = <<>>
    /\ query = None
    /\ BuilderIdle
    /\ AtmIdle
    /\ TargetIdle
    /\ StepperIdle
    /\ CallsIdle
    /\ LayersIdle
    /\ FillIdle

\* one pass of the loop body: a step of the default size
FullStep ==
    /\ pc = "ray"
    /\ KeepStepping(ray_state.x, TgtDist(ray_dist))
    /\ ray_state' = Integrate(ray_state, def_step)
    /\ steps' = Append(steps, def_step)
    /\ UNCHANGED <<pc, ray, ray_dist>>
    /\ UNCHANGED ray_rest

\* let last_step = tgt_dist - state.x; propagate by Step(last_step); state
LastStep ==
    /\ pc = "ray"
    /\ ~KeepStepping(ray_state.x, TgtDist(ray_dist))
    /\ LET last_step == TgtDist(ray_dist) - ray_state.x
       IN  /\ ray_state' = Integrate(ray_state, last_step)
           /\ steps' = Append(steps, last_step)
    /\ pc' = "ray_done"
    /\ UNCHANGED <<ray, ray_dist>>
    /\ UNCHANGED ray_rest

NextRay == FullStep \/ LastStep

SpecRay == InitRay /\ [][NextRay]_vars

----------------------------------------------------------------------------
(* flat::Ray::state_at_dist, src/src/paths/flat.rs.                        *)
(* pc: "flat_ray" (before or inside the while loop), "flat_ray_done".      *)

\* mutant: the loop stops one step short, as the spherical one does
FlatKeepStepping_Margin(x, tgt_x) == x < tgt_x - def_step

\* while state.x < tgt_x
FlatKeepStepping(x, tgt_x) == x < tgt_x

\* the while loop of flat Ray::state_at_dist, from state on
RECURSIVE FlatLoop(_, _)
FlatLoop(state, tgt_x) ==
    IF FlatKeepStepping(state.x, tgt_x)
    THEN FlatLoop(Integrate(state, def_step), tgt_x)
    ELSE state

\* flat Ray::state_at_dist(dist) as a function
FlatStateAtDist(r, dist) == FlatLoop(InitialState(r, dist), TgtDist(dist))

InitFlatRay ==
    /\ pc = "flat_ray"
    /\ ray \in Rays
    /\ ray_dist \in RayDists
    /\ ray_state = InitialState(ray, ray_dist)
    /\ steps = <<>>
    /\ query = None
    /\ BuilderIdle
    /\ AtmIdle
    /\ TargetIdle
    /\ StepperIdle
    /\ CallsIdle
    /\ LayersIdle
    /\ FillIdle

\* one pass of the loop body: a step of RK4Integrator::new(5.0)'s default size
FlatStep ==
    /\ pc = "flat_ray"
    /\ FlatKeepStepping(ray_state.x, TgtDist(ray_dist))
    /\ ray_state' = Integrate(ray_state, def_step)
    /\ steps' = Append(steps, def_step)
    /\ UNCHANGED <<pc, ray, ray_dist>>
    /\ UNCHANGED ray_rest

\* the loop condition fails: state is returned
FlatReturn ==
    /\ pc = "flat_ray"
    /\ ~FlatKeepStepping(ray_state.x, TgtDist(ray_dist))
    /\ pc' = "flat_ray_done"
    /\ UNCHANGED <<ray, ray_dist, ray_state, steps>>
    /\ UNCHANGED ray_rest

NextFlatRay == FlatStep \/ FlatReturn

SpecFlatRay == InitFlatRay /\ [][NextFlatRay]_vars

\* the rays of both shapes
NextRays == NextRay \/ NextFlatRay

SpecRays == (InitRay \/ InitFlatRay) /\ [][NextRays]_vars

----------------------------------------------------------------------------
(* The PathSteppers of src/src/paths/flat.rs and spherical.rs.  A stepper  *)
(* is [kind, x, step]: x is the field x of a LineStepper and cur_state.x   *)
(* of a RayStepper, step the field step of a LineStepper and the default   *)
(* step of a RayStepper's integrator.  Step sizes are whole metres.        *)
(* pc: "stepper".                                                          *)

StepperKinds ==
    {"flat::LineStepper", "flat::RayStepper",
     "spherical::LineStepper", "spherical::RayStepper"}

\* the step sizes given to set_step_size
StepSizes == {0, 2, 5}

\* the longest sequence of calls on one stepper
MaxStepperCalls == 4

\* into_path_stepper: LineStepper::new(line, 1.0), RayStepper::new(state, env, 1.0)
IntoPathStepper(kind) == [kind |-> kind, x |-> 0, step |-> 1]

\* a step of 1.0 whatever set_step_size was given
Advance_DefaultStep(s) == [s EXCEPT !.x = s.x + 1]

\* self.x += self.step, or propagate_in_place(.., StepSize::UseDefault)
Advance(s) ==
    IF s.kind \in {"flat::LineStepper", "spherical::LineStepper"}
    THEN [s EXCEPT !.x = s.x + s.step]
    ELSE [s EXCEPT !.x = Propagate([x |-> s.x], s.step).x]

\* into_state / as_state / cur_state: the RayState, of which x is modelled
IntoState(s) == [x |-> s.x]

InitStepper ==
    /\ pc = "stepper"
    /\ stepper \in {IntoPathStepper(kind) : kind \in StepperKinds}
    /\ yielded = None
    /\ stepped = <<>>
    /\ query = None
    /\ BuilderIdle
    /\ AtmIdle
    /\ TargetIdle
    /\ RayIdle
    /\ CallsIdle
    /\ LayersIdle
    /\ FillIdle

\* Iterator::next
StepperNext ==
    /\ pc = "stepper"
    /\ Len(stepped) < MaxStepperCalls
    /\ stepper' = Advance(stepper)
    /\ yielded' = Some(IntoState(stepper'))
    /\ stepped' = Append(stepped, [call |-> "next"])
    /\ UNCHANGED pc
    /\ UNCHANGED stepper_rest

\* PathStepper::set_step_size
SetStepSize(step) ==
    /\ pc = "stepper"
    /\ Len(stepped) < MaxStepperCalls
    /\ stepper' = [stepper EXCEPT !.step = step]
    /\ stepped' = Append(stepped, [call |-> "set_step_size", step |-> step])
    /\ UNCHANGED <<pc, yielded>>
    /\ UNCHANGED stepper_rest

NextStepper ==
    \/ StepperNext
    \/ \E step \in StepSizes : SetStepSize(step)

SpecStepper == InitStepper /\ [][NextStepper]_vars

----------------------------------------------------------------------------
(* VerticalProfileBuilder called with any altitudes, in any order, and with *)
(* with_fixed_value called any number of times.  calls records the          *)
(* arguments of the with_fixed_value calls, in the order they were made;    *)
(* interval_ends is itself the record of the altitudes given to             *)
(* with_next_function.                                                      *)

\* with_fixed_value is called at most this many times on a builder
MaxCalls == 2

\* altitudes given to with_next_function and with_fixed_value: the first
\* knot of the spline and a point between its second and third
CallAlts == {1, 3}

\* values given to with_fixed_value: the values of the spline at CallAlts
CallYs == {61, 156}

\* VerticalProfileBuilder::new(first_fun)
InitCalls ==
    /\ pc = "calls"
    /\ interval_ends = <<>>
    /\ function_defs \in {<<f>> : f \in FunDefs}
    /\ fixed_value = None
    /\ lowered = None
    /\ filled = None
    /\ result = None
    /\ query = None
    /\ calls = <<>>
    /\ AtmIdle /\ TargetIdle /\ RayIdle /\ StepperIdle /\ LayersIdle /\ FillIdle

\* VerticalProfileBuilder::with_next_function(altitude, function)
CallWithNextFunction(altitude, function) ==
    /\ pc = "calls"
    /\ Len(function_defs) < MaxSegments
    /\ interval_ends' = Append(interval_ends, altitude)
    /\ function_defs' = Append(function_defs, function)
    /\ UNCHANGED <<pc, fixed_value, lowered, filled, result, query, calls>>
    /\ UNCHANGED calls_rest

\* a fixed value already given is kept
CallWithFixedValue_KeepFirst(altitude, val) ==
    /\ pc = "calls"
    /\ Len(calls) < MaxCalls
    /\ fixed_value' = IF IsSome(fixed_value) THEN fixed_value ELSE Some(<<altitude, val>>)
    /\ calls' = Append(calls, <<altitude, val>>)
    /\ UNCHANGED <<pc, interval_ends, function_defs, lowered, filled, result, query>>
    /\ UNCHANGED calls_rest

\* VerticalProfileBuilder::with_fixed_value(altitude, val)
CallWithFixedValue(altitude, val) ==
    /\ pc = "calls"
    /\ Len(calls) < MaxCalls
    /\ fixed_value' = Some(<<altitude, val>>)
    /\ calls' = Append(calls, <<altitude, val>>)
    /\ UNCHANGED <<pc, interval_ends, function_defs, lowered, filled, result, query>>
    /\ UNCHANGED calls_rest

\* VerticalProfileBuilder::build(self)
CallBuild ==
    /\ pc = "calls"
    /\ pc' = "calls_built"
    /\ \E out \in {BuildTrace(GenerateIntermediateFunctionDefs(interval_ends, function_defs),
                              fixed_value)} :
          /\ lowered' = Some(out.lowered)
          /\ filled' = out.filled
          /\ result' = Some(out.result)
    /\ UNCHANGED <<interval_ends, function_defs, fixed_value, query, calls>>
    /\ UNCHANGED calls_rest

NextCalls ==
    \/ \E altitude \in CallAlts, function \in FunDefs :
            CallWithNextFunction(altitude, function)
    \/ \E altitude \in CallAlts, val \in CallYs : CallWithFixedValue(altitude, val)
    \/ CallBuild

SpecCalls == InitCalls /\ [][NextCalls]_vars

----------------------------------------------------------------------------
(* The atmosphere of layers, src/src/air/atmosphere.rs.  Altitudes are     *)
(* whole numbers of metres; lapses and temperatures are f64 values, and    *)
(* every sum and product is rounded as the f64 operation rounds it.  A     *)
(* pressure is kept as a term: the anchor pressure and the factors         *)
(* shift_p_with_lapse(t0, lapse, dh) it was divided and multiplied by, in  *)
(* the order of the operations; exp and powf are not evaluated.            *)

LapseDef(start_h, lapse) == [start_h |-> start_h, lapse |-> lapse]

NoAltitude(lapse_def) == lapse_def.start_h = None

WithAltitude(lapse_def) == lapse_def.start_h # None

\* the place of pairs[k] after the stable sort by altitude
SortedPlace(pairs, k) ==
    1 + Cardinality({j \in 1..Len(pairs) :
                        \/ pairs[j][1] < pairs[k][1]
                        \/ pairs[j][1] = pairs[k][1] /\ j < k})

\* lapses.sort_by(|a, b| cmp_f64(&a.0, &b.0))
SortByAltitude(pairs) ==
    [r \in 1..Len(pairs) |->
        pairs[CHOOSE k \in 1..Len(pairs) : SortedPlace(pairs, k) = r]]

\* (h, lapse) of the lapses that have an altitude, sorted
SortedLapses(lapses) ==
    LET with_h == SelectSeq(lapses, WithAltitude)
    IN  SortByAltitude([k \in 1..Len(with_h) |->
                           <<Unwrap(with_h[k].start_h), with_h[k].lapse>>])

\* Atmosphere::get_lapses
GetLapses(lapses) ==
    LET first_lapses == SelectSeq(lapses, NoAltitude)
        sorted == SortedLapses(lapses)
    IN  IF first_lapses = <<>>
        THEN Panic("unwrap on a None value")
        ELSE IF Len(first_lapses) > 1
        THEN Panic("There was more than one lapse defined with no altitude!")
        ELSE [tag |-> "Ok",
              first_lapse |-> first_lapses[1].lapse,
              lapses |-> [k \in 1..Len(sorted) |-> sorted[k][2]],
              altitudes |-> [k \in 1..Len(sorted) |-> sorted[k][1]]]

\* alts.binary_search_by(|a| cmp_f64(a, &h)): Ok(i) when alts[i] == h,
\* Err(i) with the place where h would be inserted otherwise
SearchAltitude(alts, h) ==
    LET i == BinarySearchLoop(alts, h, 0, Len(alts))
    IN  [tag |-> IF i < Len(alts) /\ alts[i + 1] = h THEN "Ok" ELSE "Err", i |-> i]

\* while i > 0 { t0 -= lapses[i - 1] * (alts[i] - alts[i - 1]); i -= 1; }
RECURSIVE DownToFirst(_, _, _, _)
DownToFirst(t0, i, lapses, alts) ==
    IF i > 0
    THEN DownToFirst(Sub(t0, MulInt(lapses[i], alts[i + 1] - alts[i])), i - 1, lapses, alts)
    ELSE t0

\* Err(0) => th0 - first_lapse * (alts[0] - h0): the sign of the lapse term
\* is the one temperature() uses
FindT0_SameSign(h0, th0, first_lapse, lapses, alts) ==
    LET found == SearchAltitude(alts, h0)
    IN  CASE found.tag = "Ok" -> DownToFirst(th0, found.i, lapses, alts)
          [] found.tag = "Err" /\ found.i = 0 ->
                IF alts = <<>> THEN Panic("index out of bounds")
                ELSE Sub(th0, MulInt(first_lapse, alts[1] - h0))
          [] OTHER ->
                DownToFirst(Sub(th0, MulInt(lapses[found.i], h0 - alts[found.i])),
                            found.i - 1, lapses, alts)

\* Atmosphere::find_t0
FindT0(h0, th0, first_lapse, lapses, alts) ==
    LET found == SearchAltitude(alts, h0)
    IN  CASE found.tag = "Ok" -> DownToFirst(th0, found.i, lapses, alts)
          [] found.tag = "Err" /\ found.i = 0 ->
                IF alts = <<>> THEN Panic("index out of bounds")
                ELSE Add(th0, MulInt(first_lapse, alts[1] - h0))
          [] OTHER ->
                DownToFirst(Sub(th0, MulInt(lapses[found.i], h0 - alts[found.i])),
                            found.i - 1, lapses, alts)

\* shift_p_with_lapse(t0, lapse, dh): isothermal for lapse == 0.0
ShiftPWithLapse(t0, lapse, dh) ==
    [fn |-> IF lapse.class = "finite" /\ lapse.bits = <<>>
            THEN "isothermal" ELSE "non_isothermal",
     t0 |-> t0, lapse |-> lapse, dh |-> dh]

\* a pressure given as a number
PressureOf(p) == [base |-> p, ops |-> <<>>]

\* p / factor
DividedBy(p, factor) == [p EXCEPT !.ops = Append(p.ops, [op |-> "div", by |-> factor])]

\* p * factor
MultipliedBy(p, factor) == [p EXCEPT !.ops = Append(p.ops, [op |-> "mul", by |-> factor])]

\* while i > 0 { p0 /= shift_p_with_lapse(temps[i - 1], lapses[i - 1],
\*                                        alts[i] - alts[i - 1]); i -= 1; }
RECURSIVE PressureDownToFirst(_, _, _, _, _)
PressureDownToFirst(p0, i, lapses, alts, temps) ==
    IF i > 0
    THEN PressureDownToFirst(
             DividedBy(p0, ShiftPWithLapse(temps[i], lapses[i], alts[i + 1] - alts[i])),
             i - 1, lapses, alts, temps)
    ELSE p0

\* Atmosphere::find_p0
FindP0(h0, ph0, first_lapse, lapses, alts, temps) ==
    LET found == SearchAltitude(alts, h0)
    IN  CASE found.tag = "Ok" -> PressureDownToFirst(ph0, found.i, lapses, alts, temps)
          [] found.tag = "Err" /\ found.i = 0 ->
                DividedBy(ph0, ShiftPWithLapse(temps[1], first_lapse, h0 - alts[1]))
          [] OTHER ->
                PressureDownToFirst(
                    DividedBy(ph0, ShiftPWithLapse(temps[found.i], lapses[found.i],
                                                   h0 - alts[found.i])),
                    found.i - 1, lapses, alts, temps)

\* start_temperatures: t0, and t += lapses[i - 1] * (alt - alts[i - 1]) for
\* every further layer
RECURSIVE StartTemperatures(_, _, _, _)
StartTemperatures(t0, lapses, alts, n) ==
    IF n <= 1 THEN <<t0>>
    ELSE LET below == StartTemperatures(t0, lapses, alts, n - 1)
         IN  Append(below,
                    Add(below[n - 1], MulInt(lapses[n - 1], alts[n] - alts[n - 1])))

\* start_pressures: p0, and p *= shift_p_with_lapse(...) for every further
\* layer
RECURSIVE StartPressures(_, _, _, _, _)
StartPressures(p0, lapses, alts, temps, n) ==
    IF n <= 1 THEN <<p0>>
    ELSE LET below == StartPressures(p0, lapses, alts, temps, n - 1)
         IN  Append(below,
                    MultipliedBy(below[n - 1],
                        ShiftPWithLapse(temps[n - 1], lapses[n - 1], alts[n] - alts[n - 1])))

IsPanic(v) == "tag" \in DOMAIN v /\ v.tag = "Panic"

\* from_def once the lowest temperature is known
LayersFrom(def, got, t0) ==
    LET temps == StartTemperatures(t0, got.lapses, got.altitudes, Len(got.altitudes))
        p0 == FindP0(def.pressure.start_h, PressureOf(def.pressure.start_p),
                     got.first_lapse, got.lapses, got.altitudes, temps)
    IN  [tag |-> "Ok",
         layer_altitudes |-> got.altitudes,
         first_lapse |-> got.first_lapse,
         lapses |-> got.lapses,
         start_pressures |->
             StartPressures(p0, got.lapses, got.altitudes, temps, Len(got.altitudes)),
         start_temperatures |-> temps]

\* from_def once the lapses are sorted
LayersWith(def, got) ==
    LET t0 == FindT0(def.temperature.start.start_h, def.temperature.start.start_t,
                     got.first_lapse, got.lapses, got.altitudes)
    IN  IF IsPanic(t0) THEN t0 ELSE LayersFrom(def, got, t0)

\* Atmosphere::from_def
LayersFromDef(def) ==
    LET got == GetLapses(def.temperature.lapses)
    IN  IF IsPanic(got) THEN got ELSE LayersWith(def, got)

\* Atmosphere::temperature
Temperature(atm, h) ==
    LET found == SearchAltitude(atm.layer_altitudes, h)
    IN  CASE found.tag = "Ok" -> atm.start_temperatures[found.i + 1]
          [] found.tag = "Err" /\ found.i = 0 ->
                Sub(atm.start_temperatures[1],
                    MulInt(atm.first_lapse, atm.layer_altitudes[1] - h))
          [] OTHER ->
                Add(atm.start_temperatures[found.i],
                    MulInt(atm.lapses[found.i], h - atm.layer_altitudes[found.i]))

\* Atmosphere::pressure
Pressure(atm, h) ==
    LET found == SearchAltitude(atm.layer_altitudes, h)
    IN  CASE found.tag = "Ok" -> atm.start_pressures[found.i + 1]
          [] found.tag = "Err" /\ found.i = 0 ->
                MultipliedBy(atm.start_pressures[1],
                    ShiftPWithLapse(atm.start_temperatures[1], atm.first_lapse,
                                    h - atm.layer_altitudes[1]))
          [] OTHER ->
                MultipliedBy(atm.start_pressures[found.i],
                    ShiftPWithLapse(atm.start_temperatures[found.i], atm.lapses[found.i],
                                    h - atm.layer_altitudes[found.i]))

\* a lapse in K/m, given in ten-thousandths
Lapse(n) == DivInt(n, 10000)

\* the lapses of the US-76 definition (test_us76)
Us76Lapses ==
    << LapseDef(None, Lapse(-65)),
       LapseDef(Some(11000), Lapse(0)),
       LapseDef(Some(20000), Lapse(10)),
       LapseDef(Some(32000), Lapse(28)),
       LapseDef(Some(47000), Lapse(0)),
       LapseDef(Some(51000), Lapse(-28)),
       LapseDef(Some(71000), Lapse(-20)),
       LapseDef(Some(84852), Lapse(0)) >>

\* a layer from 1000 m below the tropopause, the lapses given out of order
InversionLapses ==
    << LapseDef(Some(11000), Lapse(0)),
       LapseDef(None, Lapse(-65)),
       LapseDef(Some(1000), Lapse(-63)) >>

OneLayerLapses == << LapseDef(None, Lapse(-65)), LapseDef(Some(11000), Lapse(0)) >>

\* no lapse with an altitude, no lapse without one, two lapses without one
NoLayerLapses == << LapseDef(None, Lapse(-65)) >>

NoFirstLapses == << LapseDef(Some(11000), Lapse(0)) >>

TwoFirstLapses ==
    << LapseDef(None, Lapse(-65)), LapseDef(None, Lapse(0)),
       LapseDef(Some(11000), Lapse(0)) >>

LapseLists ==
    {Us76Lapses, InversionLapses, OneLayerLapses, NoLayerLapses, NoFirstLapses,
     TwoFirstLapses}

\* altitudes of the anchors and of the queries: below every boundary, on
\* the boundaries of InversionLapses, and between boundaries
LayerAlts == {0, 1000, 3000, 11000, 25000}

\* anchor temperatures in K; the anchor pressure is 101325 Pa
AnchorTemperatures == {216, 250, 288}

LayerDefs ==
    {[temperature |-> [lapses |-> l,
                       start |-> [start_h |-> ht, start_t |-> FromInt(t)]],
      pressure |-> [start_h |-> hp, start_p |-> 101325]] :
        l \in LapseLists, ht \in LayerAlts, t \in AnchorTemperatures,
        hp \in {0, 3000, 11000}}

InitLayers ==
    /\ pc = "layers_def"
    /\ layers_def \in LayerDefs
    /\ layers_atm = None
    /\ query = None
    /\ BuilderIdle /\ AtmIdle /\ TargetIdle /\ RayIdle /\ StepperIdle /\ CallsIdle
    /\ FillIdle

\* Atmosphere::from_def(def)
NewLayers ==
    /\ pc = "layers_def"
    /\ pc' = "layers"
    /\ layers_atm' = Some(LayersFromDef(layers_def))
    /\ UNCHANGED <<layers_def, query>>
    /\ UNCHANGED layers_rest

\* atmosphere.temperature(h)
LayersTemperature(h) ==
    /\ pc = "layers"
    /\ Unwrap(layers_atm).tag = "Ok"
    /\ query' = Some([fn |-> "temperature", h |-> h,
                      value |-> Temperature(Unwrap(layers_atm), h)])
    /\ UNCHANGED <<pc, layers_def, layers_atm>>
    /\ UNCHANGED layers_rest

\* atmosphere.pressure(h)
LayersPressure(h) ==
    /\ pc = "layers"
    /\ Unwrap(layers_atm).tag = "Ok"
    /\ query' = Some([fn |-> "pressure", h |-> h,
                      value |-> Pressure(Unwrap(layers_atm), h)])
    /\ UNCHANGED <<pc, layers_def, layers_atm>>
    /\ UNCHANGED layers_rest

NextLayers ==
    \/ NewLayers
    \/ \E h \in LayerAlts : LayersTemperature(h)
    \/ \E h \in LayerAlts : LayersPressure(h)

SpecLayers == InitLayers /\ [][NextLayers]_vars

----------------------------------------------------------------------------
(* Vocabulary of the properties *)

Built == pc = "built"

Res == Unwrap(result)

Low == Unwrap(lowered)

IsOk(r) == r.tag = "Ok"

IsErr(r) == r.tag = "Err"

IsConflict(r) == r.tag = "Err" /\ r.error.kind = "FixedPointConflict"

AllLinear == \A k \in 1..Len(function_defs) : function_defs[k].kind = "Linear"

NumSplines == Cardinality({k \in 1..Len(function_defs) : function_defs[k].kind = "Spline"})

StrictlyAscending(s) == \A k \in 1..(Len(s) - 1) : s[k] < s[k + 1]

\* index (0-based) ranges over the lowered intervals
LowIndices == 0..(Len(Low.funs) - 1)

FixedX == Unwrap(fixed_value)[1]

FixedY == Unwrap(fixed_value)[2]

\* altitude x lies in interval i (0-based) of a profile with these ends:
\* between the end below, if any, and the end above, if any, both included
LiesIn(ends, i, x) ==
    /\ (i = 0 \/ ends[i] <= x)
    /\ (i >= Len(ends) \/ ends[i + 1] >= x)

\* an interval whose values are known: a Cubic, or a Linear with a fixed point
Determined(def) == def.kind = "Cubic" \/ def.fixed_point # None

\* the value at x of a determined interval
ValueOf(def, x) ==
    IF def.kind = "Cubic" THEN PolyEval(def.poly, x)
    ELSE def.fixed_point[1][2] + def.gradient * (x - def.fixed_point[1][1])

\* more than 1e-4 apart
Apart(u, v) == (u - v > EPSILON) \/ (v - u > EPSILON)

\* the atmosphere from_def returned
Atm == Unwrap(atmosphere)

AtmOk == pc = "atm" /\ Atm.tag = "Ok"

PressureEnds == Atm.pressure.altitude_interval_ends

PressureFunctions == Atm.pressure.pressure_functions

\* the temperature is positive at every modelled altitude
TemperaturePositive ==
    AtmOk => \A h \in Alts : VerticalProfileEval(Atm.temperature, h) > 0

----------------------------------------------------------------------------
(* C1 *)

\* C1: a builder that holds only Linear segments and on which
\* with_fixed_value was never called builds to Err(NoFixedPoint).
C1_OnlyGradientsNoFixedPoint ==
    (Built /\ AllLinear /\ fixed_value = None) => Res = Err(NoFixedPoint)

C1_Witness ==
    /\ Built /\ AllLinear /\ fixed_value = None
    /\ Len(function_defs) = MaxSegments
    /\ Res = Err(NoFixedPoint)

----------------------------------------------------------------------------
(* C2 *)

\* the case of C2 for interval i: the fixed value lies in the Linear interval
\* i, interval i + 1 is determined when the lowering is done, and the two
\* disagree along the gradient of i by more than 1e-4
C2_Case(i) ==
    /\ Built /\ IsSome(fixed_value)
    /\ i + 1 < Len(Low.funs)
    /\ Low.funs[i + 1].kind = "Linear"
    /\ LiesIn(Low.ends, i, FixedX)
    /\ Determined(Low.funs[i + 2])
    /\ Apart(ValueOf(Low.funs[i + 2], Low.ends[i + 1]) - FixedY,
             Low.funs[i + 1].gradient * (Low.ends[i + 1] - FixedX))

C2_Error(i) ==
    Err(FixedPointConflict(i, i + 1, <<FixedX, FixedY>>,
            <<Low.ends[i + 1], ValueOf(Low.funs[i + 2], Low.ends[i + 1])>>,
            Some(Low.funs[i + 1].gradient)))

\* C2 as stated: in that case build() returns FixedPointConflict{index1: i,
\* index2: i + 1, point1: the fixed value, point2: the boundary point of
\* interval i + 1, gradient: Some(g)}.
C2_Original ==
    Built => \A i \in LowIndices : C2_Case(i) => Res = C2_Error(i)

\* C2 amended: in that case build() never returns Ok, it returns a
\* FixedPointConflict; the conflict is the stated one unless an inconsistency
\* is met earlier in the ascending pass, and then it names lower intervals
\* (index2 <= i); for i = 0 it is always the stated one.
C2_ConflictWithNextInterval ==
    Built => \A i \in LowIndices : C2_Case(i) =>
        /\ IsConflict(Res)
        /\ (Res = C2_Error(i) \/ Res.error.index2 <= i)
        /\ (i = 0 => Res = C2_Error(i))

C2_Witness ==
    /\ Built
    /\ Len(function_defs) = 2
    /\ function_defs[1].kind = "Linear" /\ function_defs[2].kind = "Spline"
    /\ C2_Case(0)
    /\ Low.funs[2].kind = "Cubic"
    /\ Res = C2_Error(0)

----------------------------------------------------------------------------
(* C3 *)

\* the profile was built after with_fixed_value(x, y) and evaluated at x
C3_Case ==
    /\ Built /\ IsSome(fixed_value) /\ IsOk(Res)
    /\ IsSome(query) /\ Unwrap(query).h = FixedX

\* C3 as stated: evaluating the built profile at the altitude of the fixed
\* value returns exactly the fixed value, whatever interval contains it.
C3_Original == C3_Case => Unwrap(query).value = FixedY

\* C3 amended: evaluating the built profile at the altitude of the fixed
\* value returns a value within 1e-4 of it; it returns the fixed value itself
\* when every interval that contains the altitude is Linear.
C3_RoundTripAtAnchor ==
    C3_Case =>
        /\ ~Apart(Unwrap(query).value, FixedY)
        /\ (\A i \in LowIndices :
                LiesIn(Low.ends, i, FixedX) => Low.funs[i + 1].kind = "Linear")
           => Unwrap(query).value = FixedY

C3_Witness ==
    /\ C3_Case
    /\ NumSplines = 1
    /\ \E i \in LowIndices :
          /\ Low.funs[i + 1].kind = "Cubic"
          /\ i >= 1 /\ Low.ends[i] < FixedX /\ LiesIn(Low.ends, i, FixedX)
    /\ Unwrap(query).value # FixedY
    /\ ~Apart(Unwrap(query).value, FixedY)

----------------------------------------------------------------------------
(* C4 *)

\* C4: in every PressureProfile produced by from_temperature_profile there
\* is one pressure function per interval, and for every pair of adjacent
\* intervals the two pressure functions evaluate to the same value at their
\* shared boundary, wherever the altitude of the pressure fixed point lies.
C4_PressureContinuity ==
    AtmOk =>
        /\ Len(PressureFunctions) = Len(PressureEnds) + 1
        /\ \A i \in 1..Len(PressureEnds) :
              /\ ~PressureFunctionEval(PressureFunctions[i], PressureEnds[i]).nan
              /\ PressureFunctionEval(PressureFunctions[i], PressureEnds[i])
                     = PressureFunctionEval(PressureFunctions[i + 1], PressureEnds[i])

\* the fixed point strictly between two boundaries, intervals below and above
\* it, none of the pressures at a boundary being the pressure of the fixed point
C4_Witness ==
    /\ AtmOk
    /\ Len(PressureEnds) >= 3
    /\ \E i \in 1..(Len(PressureEnds) - 1) :
          /\ PressureEnds[i] < atm_def.pressure.altitude
          /\ atm_def.pressure.altitude < PressureEnds[i + 1]
    /\ \E i \in 1..Len(PressureFunctions) : PressureFunctions[i].kind = "TriplePower"
    /\ \E i \in 1..Len(PressureFunctions) : PressureFunctions[i].kind = "PowerWithAtan"
    /\ \A i \in 1..Len(PressureEnds) :
          /\ PressureFunctionEval(PressureFunctions[i], PressureEnds[i])
                 = PressureFunctionEval(PressureFunctions[i + 1], PressureEnds[i])
          /\ PressureFunctionEval(PressureFunctions[i], PressureEnds[i]).fs # <<>>

----------------------------------------------------------------------------
(* C5 *)

\* the pressure was asked at the altitude of the pressure fixed point
C5_Case ==
    /\ AtmOk
    /\ IsSome(query)
    /\ Unwrap(query).fn = "pressure"
    /\ Unwrap(query).h = atm_def.pressure.altitude

\* C5: for any temperature profile and any pressure fixed point (h0, p0) the
\* pressure at h0 is p0; from_def builds the US-76 definition, whose pressure
\* at 0 is 101325 and whose temperature at 0 is 288.
C5_AnchorRoundTrip ==
    /\ C5_Case => Unwrap(query).value = PressureValue(atm_def.pressure.pressure)
    /\ (pc = "atm" /\ atm_def = Us76) =>
          /\ Atm.tag = "Ok"
          /\ PressureProfileEval(Atm.pressure, 0) = PressureValue(101325)
          /\ VerticalProfileEval(Atm.temperature, 0) = 2880000

\* the fixed point inside an interval that is neither the lowest nor the
\* highest, away from the altitude 0
C5_Witness ==
    /\ C5_Case
    /\ atm_def # Us76
    /\ \E i \in 1..(Len(PressureEnds) - 1) :
          /\ PressureEnds[i] < atm_def.pressure.altitude
          /\ atm_def.pressure.altitude < PressureEnds[i + 1]
    /\ Unwrap(query).value = PressureValue(101325)

----------------------------------------------------------------------------
(* C6 *)

\* C6: a builder of Linear segments only, with strictly ascending boundaries
\* and a fixed value, builds Ok wherever the fixed value lies, and every
\* interval then has a fixed point (into_function does not panic).
C6_GradientsWithFixedValue ==
    (Built /\ AllLinear /\ StrictlyAscending(interval_ends) /\ IsSome(fixed_value)) =>
        /\ IsOk(Res)
        /\ IsSome(filled)
        /\ \A k \in 1..Len(Unwrap(filled)) : Unwrap(filled)[k].fixed_point # None

\* three gradient segments, the fixed value strictly inside the middle one
C6_Witness ==
    /\ Built /\ AllLinear /\ IsSome(fixed_value)
    /\ Len(function_defs) = 3
    /\ interval_ends[1] < FixedX /\ FixedX < interval_ends[2]
    /\ IsOk(Res)
    /\ \A k \in 1..3 : Unwrap(filled)[k].fixed_point # None

----------------------------------------------------------------------------
(* C7 *)

\* interval i (0-based) took the value of a neighbour at the shared boundary
C7_Propagated(defs, ends, i) ==
    \/ /\ i >= 1
       /\ Determined(defs[i])
       /\ defs[i + 1].fixed_point = Some(<<ends[i], ValueOf(defs[i], ends[i])>>)
    \/ /\ i + 1 < Len(defs)
       /\ Determined(defs[i + 2])
       /\ defs[i + 1].fixed_point = Some(<<ends[i + 1], ValueOf(defs[i + 2], ends[i + 1])>>)

\* C7: a builder with exactly one Spline segment and any number of Linear
\* segments before and after it (boundaries ascending), with no fixed value,
\* builds Ok; every Linear interval that the lowering left without a fixed
\* point has received the value of a neighbour at their shared boundary.
C7_SplineAnchorsGradients ==
    (Built /\ NumSplines = 1 /\ fixed_value = None) =>
        /\ IsOk(Res)
        /\ IsSome(filled)
        /\ \A i \in LowIndices :
              ~Determined(Low.funs[i + 1]) => C7_Propagated(Unwrap(filled), Low.ends, i)

\* a gradient segment below and one above the spline, both anchored by it
C7_Witness ==
    /\ Built /\ fixed_value = None
    /\ Len(function_defs) = 3
    /\ function_defs[1].kind = "Linear"
    /\ function_defs[2].kind = "Spline"
    /\ function_defs[3].kind = "Linear"
    /\ IsOk(Res)
    /\ ~Determined(Low.funs[1]) /\ Unwrap(filled)[1].fixed_point # None
    /\ ~Determined(Low.funs[Len(Low.funs)])
    /\ Unwrap(filled)[Len(Low.funs)].fixed_point # None

----------------------------------------------------------------------------
(* C8 *)

\* the fixed value lies in the Cubic interval i
C8_Case(i) ==
    /\ Built /\ IsSome(fixed_value)
    /\ Low.funs[i + 1].kind = "Cubic"
    /\ LiesIn(Low.ends, i, FixedX)

C8_Error(i) ==
    Err(FixedPointConflict(i, i, <<FixedX, FixedY>>,
            <<FixedX, PolyEval(Low.funs[i + 1].poly, FixedX)>>, None))

C8_Disagrees(i) == Apart(FixedY, PolyEval(Low.funs[i + 1].poly, FixedX))

\* C8 as stated: the check passes exactly when |y - p(x)| <= 1e-4, and
\* otherwise build() returns FixedPointConflict{index1 = index2 = i,
\* point1 = (x, y), point2 = (x, p(x)), gradient = None}.
C8_Original ==
    Built => \A i \in LowIndices : C8_Case(i) =>
        IF C8_Disagrees(i) THEN Res = C8_Error(i) ELSE Res # C8_Error(i)

\* C8 amended: the check passes exactly when |y - p(x)| <= 1e-4; otherwise
\* build() returns a FixedPointConflict, which is the stated one unless a
\* conflict is met earlier in the ascending pass (an interval below i that
\* also contains x, or lower intervals that disagree), and that one names a
\* lower interval (index1 < i).  With one Spline segment in the builder and
\* x above the lower end of interval i it is the stated one.
C8_FixedValueInCubic ==
    Built => \A i \in LowIndices : C8_Case(i) =>
        IF C8_Disagrees(i)
        THEN /\ IsConflict(Res)
             /\ (Res = C8_Error(i) \/ Res.error.index1 < i)
             /\ (NumSplines = 1 /\ Low.ends[i] < FixedX) => Res = C8_Error(i)
        ELSE Res # C8_Error(i)

C8_Witness ==
    /\ Built
    /\ \E i \in LowIndices :
          /\ C8_Case(i) /\ C8_Disagrees(i)
          /\ i >= 1 /\ Low.ends[i] < FixedX
          /\ Res = C8_Error(i)

----------------------------------------------------------------------------
(* C9 *)

\* C9: the lowering yields one more interval function than interval ends,
\* and so does every profile build() returns.
C9_OneMoreFunctionThanEnds ==
    Built =>
        /\ Len(Low.funs) = Len(Low.ends) + 1
        /\ IsOk(Res) =>
              Len(Res.profile.interval_functions)
                  = Len(Res.profile.altitude_interval_ends) + 1

\* a spline segment between two gradient segments that starts inside its
\* second piece, so that the first piece is skipped and the second clipped
C9_Witness ==
    /\ Built /\ IsOk(Res)
    /\ Len(function_defs) = 3
    /\ function_defs[2].kind = "Spline"
    /\ interval_ends[1] = 3
    /\ Len(Res.profile.interval_functions) = Len(Res.profile.altitude_interval_ends) + 1

----------------------------------------------------------------------------
(* C10 *)

\* C10 as stated: when the boundaries given to with_next_function are
\* strictly ascending, the interval ends of the lowered profile are strictly
\* ascending.
C10_AscendingEnds ==
    (Built /\ StrictlyAscending(interval_ends)) => StrictlyAscending(Low.ends)

----------------------------------------------------------------------------
(* Vocabulary of the claims about cast_ray_target. *)

Bisecting == pc \in {"bisect", "returned"} /\ ~target.straight

Returned == pc = "returned"

ReturnedPath == Unwrap(path)

\* the angle that reaches tgt_h, when the altitude increases with the angle
Root == target.response.root

IncreasingResponse == ~target.straight /\ target.response.kind = "Increasing"

\* at most 1e-9 apart
WithinEpsilon(a, b) == AngDist(a, b)[1] = 0 /\ AngDist(a, b)[2] <= epsilon

\* 3 / 2^k on the grid of angles, for k <= 33
HalvedWidth(k) == IF k <= 16 THEN <<2^(16 - k), 0>> ELSE <<0, 2^(33 - k)>>

----------------------------------------------------------------------------
(* C11 *)
\* C11: with straight = false, when the altitude reached at tgt_dist is
\* strictly increasing in the launch angle and the angle a* of [-1.5, 1.5]
\* reaches exactly tgt_h, a* lies in [min_ang, max_ang] at every iteration
\* of the bisection, and the launch angle of the returned ray is at most
\* 1e-9 away from a*.
C11_TargetConvergence ==
    (Bisecting /\ IncreasingResponse) =>
        /\ AngLeq(min_ang, Root)
        /\ AngLeq(Root, max_ang)
        /\ Returned => WithinEpsilon(ReturnedPath.start_ang, Root)

\* a returned ray whose angle is next to, and not on, the angle that hits
C11_Witness ==
    /\ Returned
    /\ IncreasingResponse
    /\ Root = <<40000, 77778>>
    /\ integrations = 32
    /\ ReturnedPath.kind = "Ray"
    /\ ReturnedPath.start_ang # Root

----------------------------------------------------------------------------
(* C12 *)
C12_Bracket ==
    Bisecting =>
        /\ AngLeq(MinAngle, min_ang)
        /\ AngLess(min_ang, max_ang)
        /\ AngLeq(max_ang, MaxAngle)
        /\ integrations <= 32
        /\ AngSub(max_ang, min_ang) = HalvedWidth(integrations)
        /\ WiderThanEpsilon(min_ang, max_ang) <=> integrations < 32
        /\ Returned => integrations = 32

\* C12: the bisection of cast_ray_target ends for every response of the
\* altitude to the angle: each iteration halves the bracket exactly,
\* whichever half it keeps, so the loop stops after exactly 32 ray
\* integrations (3/2^32 <= 1e-9 < 3/2^31), and the bracket stays inside
\* [-1.5, 1.5] with min_ang < max_ang.
C12_BisectionTerminates == [](C12_Bracket) /\ <>(target.straight \/ Returned)

\* a bisection that finished on a response that is not monotonic
C12_Witness ==
    /\ Returned
    /\ ~target.straight
    /\ target.response.kind = "Band"
    /\ integrations = 32
    /\ min_ang # MinAngle
    /\ max_ang # MaxAngle

----------------------------------------------------------------------------
(* C19 *)
StraightReturned == Returned /\ target.straight

OnFlat == target.shape.shape = "Flat"

\* the difference of two whole numbers divided by tgt_dist is an f64
SlopeExact ==
    LET a == ReturnedPath.a
    IN  /\ a.class = "finite"
        /\ Eq(Finite(a.neg # (target.tgt_dist < 0),
                     MulBits(a.bits, Abs(target.tgt_dist)), a.exp),
              FromInt(target.tgt_h - target.start_h))

\* the number of binary digits of the larger of |start_h| and |tgt_h|
AltitudeDigits ==
    LET m == IF Abs(target.start_h) < Abs(target.tgt_h)
             THEN Abs(target.tgt_h) ELSE Abs(target.start_h)
    IN  Len(IntBits(m))

NoBisection == integrations = 0 /\ min_ang = None /\ max_ang = None

SameAngleEverywhere ==
    \A d1, d2 \in QueryDistances :
        AngleEq(AngleAtDist(ReturnedPath, d1), AngleAtDist(ReturnedPath, d2))

\* C19 as stated: for straight = true no bisection is made and a Line is
\* returned; on a flat environment and for tgt_dist # 0 the line has
\* h_at_dist(0) == start_h and h_at_dist(tgt_dist) == tgt_h, and the same
\* angle at every distance.
C19_Original ==
    StraightReturned =>
        /\ NoBisection
        /\ ReturnedPath.kind = "Line"
        /\ (OnFlat /\ target.tgt_dist # 0) =>
              /\ Eq(HAtDist(ReturnedPath, 0), FromInt(target.start_h))
              /\ Eq(HAtDist(ReturnedPath, target.tgt_dist), FromInt(target.tgt_h))
              /\ SameAngleEverywhere

\* C19 amended: for straight = true no bisection is made and a Line is
\* returned; on a flat environment and for tgt_dist # 0 the line has
\* h_at_dist(0) == start_h and the same angle at every distance;
\* h_at_dist(tgt_dist) == tgt_h when the slope (tgt_h - start_h) / tgt_dist
\* is an f64 without rounding, and otherwise h_at_dist(tgt_dist) is within
\* 2^-50 * M of tgt_h, M the power of two above |start_h| and |tgt_h|.
C19_StraightLineUpToRounding ==
    StraightReturned =>
        /\ NoBisection
        /\ ReturnedPath.kind = "Line"
        /\ (OnFlat /\ target.tgt_dist # 0) =>
              /\ Eq(HAtDist(ReturnedPath, 0), FromInt(target.start_h))
              /\ SlopeExact =>
                    Eq(HAtDist(ReturnedPath, target.tgt_dist), FromInt(target.tgt_h))
              /\ Below(Sub(HAtDist(ReturnedPath, target.tgt_dist), FromInt(target.tgt_h)),
                       AltitudeDigits - 50)
              /\ SameAngleEverywhere

\* the line from (0, 0) to (49, 1) was asked for its altitude at 49 and did
\* not answer 1
C19_Witness ==
    /\ StraightReturned
    /\ OnFlat
    /\ target.start_h = 0
    /\ target.tgt_h = 1
    /\ target.tgt_dist = 49
    /\ IsSome(query)
    /\ Unwrap(query).fn = "h_at_dist"
    /\ Unwrap(query).h = 49
    /\ ~Eq(Unwrap(query).value, FromInt(1))
    /\ ~SlopeExact

----------------------------------------------------------------------------
(* C13 *)
RayDone == pc = "ray_done"

\* C13: spherical Ray::state_at_dist(dist) ends with state.x equal to |dist|
\* for every dist, 0 and distances below one step included: it takes steps
\* of 5 m while x < |dist| - 5, then one last step of |dist| - x, which lies
\* in [0, 5]; x never exceeds |dist|.
C13_EndsAtDist ==
    /\ ray_state.x <= TgtDist(ray_dist)
    /\ \A i \in 1..Len(steps) :
          (i < Len(steps) \/ ~RayDone) =>
              /\ steps[i] = def_step
              /\ (i - 1) * def_step < TgtDist(ray_dist) - def_step
    /\ RayDone =>
          /\ ray_state.x = TgtDist(ray_dist)
          /\ steps # <<>>
          /\ steps[Len(steps)] >= 0
          /\ steps[Len(steps)] <= def_step
          /\ steps[Len(steps)] = TgtDist(ray_dist) - (Len(steps) - 1) * def_step

\* a negative distance reached after full steps and a shorter last one
C13_Witness ==
    /\ RayDone
    /\ ray_dist = 0 - 13
    /\ steps = <<5, 5, 3>>
    /\ ray_state.x = 13

\* the distance 0: a single step of length 0
C13_WitnessZero == RayDone /\ ray_dist = 0 /\ steps = <<0>>

----------------------------------------------------------------------------
(* C14 *)
\* the step size in effect after the calls, 1.0 by default
RECURSIVE StepInEffect(_)
StepInEffect(cs) ==
    IF cs = <<>> THEN 1
    ELSE IF cs[Len(cs)].call = "set_step_size" THEN cs[Len(cs)].step
    ELSE StepInEffect(SubSeq(cs, 1, Len(cs) - 1))

\* the sum of the step sizes in effect at each call of next()
RECURSIVE SumOfSteps(_)
SumOfSteps(cs) ==
    IF cs = <<>> THEN 0
    ELSE LET before == SubSeq(cs, 1, Len(cs) - 1)
         IN  SumOfSteps(before)
                 + (IF cs[Len(cs)].call = "next" THEN StepInEffect(before) ELSE 0)

NextCalled == \E i \in 1..Len(stepped) : stepped[i].call = "next"

\* C14: for each of the four PathSteppers, next() makes one step of the
\* step size in effect and returns Some of the new state, never None; after
\* any sequence of next() and set_step_size() calls x is the sum of the step
\* sizes in effect at the calls of next() (1.0 until set_step_size is
\* called), and set_step_size by itself moves nothing.
C14_StepperSums ==
    /\ stepper.x = SumOfSteps(stepped)
    /\ stepper.step = StepInEffect(stepped)
    /\ NextCalled => yielded = Some([x |-> SumOfSteps(stepped)])
    /\ ~NextCalled => yielded = None

\* next, set_step_size(5), next, set_step_size(2) on a ray stepper: 1 + 5
C14_Witness ==
    /\ stepper.kind = "spherical::RayStepper"
    /\ stepped = <<[call |-> "next"], [call |-> "set_step_size", step |-> 5],
                   [call |-> "next"], [call |-> "set_step_size", step |-> 2]>>
    /\ yielded = Some([x |-> 6])
    /\ stepper.x = 6

----------------------------------------------------------------------------
(* C15 *)
\* from_def made an atmosphere of one Linear temperature segment and a fixed
\* value
SingleLinear ==
    /\ AtmOk
    /\ atm_def.next_functions = <<>>
    /\ atm_def.first_temperature_function.kind = "Linear"
    /\ IsSome(atm_def.temperature_fixed_point)

C15_WitnessExponential ==
    /\ SingleLinear
    /\ atm_def.first_temperature_function.gradient = 0
    /\ PressureFunctions[1].kind = "Exponential"

----------------------------------------------------------------------------
(* C17 *)
\* the two builds of from_def
TemperatureBuild ==
    BuildProfile(atm_def.first_temperature_function, atm_def.temperature_fixed_point,
                 atm_def.next_functions)

HumidityBuild ==
    BuildProfile(atm_def.first_humidity_function, atm_def.humidity_fixed_point,
                 atm_def.next_humidity_functions)

\* the intervals of a build after fill_fixed_points
FilledOf(first_function, fixed_point, next_functions) ==
    LET low == GenerateIntermediateFunctionDefs(
                   [k \in 1..Len(next_functions) |-> next_functions[k].altitude],
                   <<first_function>>
                       \o [k \in 1..Len(next_functions) |-> next_functions[k].function])
    IN  FillFixedPoints(low.ends, low.funs, fixed_point)

\* Ok with a whole profile whose intervals all have their fixed point, or
\* Err with the error at which fill_fixed_points stopped and nothing else
AllOrNothing(r, fill) ==
    \/ /\ IsOk(r)
       /\ DOMAIN r = {"tag", "profile"}
       /\ fill.res = OkUnit
       /\ \A k \in 1..Len(fill.defs) : HasFixedPoint(fill.defs[k])
       /\ Len(r.profile.interval_functions) = Len(fill.defs)
       /\ Len(r.profile.interval_functions) = Len(r.profile.altitude_interval_ends) + 1
       /\ \A k \in 1..Len(fill.defs) :
             r.profile.interval_functions[k].kind \in {"Linear", "Cubic"}
    \/ /\ IsErr(r)
       /\ DOMAIN r = {"tag", "error"}
       /\ r = fill.res

\* the state NewAtmosphere leaves: from_def has returned or panicked and
\* nothing has been asked of the atmosphere yet
FromDefReturned == pc = "atm" /\ query = None

\* C17: build() returns Ok with a profile of which every interval is
\* anchored, or Err with the first error met and no profile; from_def
\* yields an Atmosphere only if both the temperature and the humidity
\* profile were built, and panics otherwise.
C17_AllOrNothing ==
    FromDefReturned =>
        LET t == TemperatureBuild
            u == HumidityBuild
        IN  /\ AllOrNothing(t, FilledOf(atm_def.first_temperature_function,
                                        atm_def.temperature_fixed_point,
                                        atm_def.next_functions))
            /\ AllOrNothing(u, FilledOf(atm_def.first_humidity_function,
                                        atm_def.humidity_fixed_point,
                                        atm_def.next_humidity_functions))
            /\ Atm.tag = "Ok" <=> (IsOk(t) /\ IsOk(u))
            /\ Atm.tag = "Ok" =>
                  /\ Atm.temperature = t.profile
                  /\ Atm.humidity = u.profile
            /\ Atm.tag # "Ok" => (Atm.tag = "Panic" /\ DOMAIN Atm = {"tag", "msg"})

\* the temperature profile is built, the humidity profile is not: no
\* Atmosphere
C17_Witness ==
    /\ FromDefReturned
    /\ IsOk(TemperatureBuild)
    /\ IsErr(HumidityBuild)
    /\ Atm.tag = "Panic"

\* the temperature build stops at a conflict: no Atmosphere
C17_WitnessConflict ==
    /\ FromDefReturned
    /\ IsConflict(TemperatureBuild)
    /\ IsOk(HumidityBuild)
    /\ Atm.tag = "Panic"

----------------------------------------------------------------------------
(* C16 *)
CallsBuilt == pc = "calls_built"

\* a with_next_function altitude that is not greater than the one before
OutOfOrder == ~StrictlyAscending(interval_ends)

\* C16: boundaries given in non-ascending order make with_next_function or
\* build() abort; build() never returns Ok with a profile for them.
C16_FailsFast == (CallsBuilt /\ OutOfOrder) => ~IsOk(Res)

\* Linear segments from 3 and then from 1, anchored at (1, 61): build()
\* returns Ok with the interval ends <<3, 1>>
C16_OkOutOfOrder ==
    /\ CallsBuilt
    /\ interval_ends = <<3, 1>>
    /\ AllLinear
    /\ fixed_value = Some(<<1, 61>>)
    /\ IsOk(Res)
    /\ Res.profile.altitude_interval_ends = <<3, 1>>

----------------------------------------------------------------------------
(* C18 *)
\* the arguments of the last with_fixed_value call, if there was one
LastCall == IF calls = <<>> THEN None ELSE Some(calls[Len(calls)])

\* C18: whatever with_fixed_value calls were made, the builder holds the
\* arguments of the last one only, no call fails, and build() returns what
\* it returns for a builder that was given that one fixed value.
C18_SingleFixedValue ==
    pc \in {"calls", "calls_built"} =>
        /\ fixed_value = LastCall
        /\ Len(fixed_value) <= 1
        /\ CallsBuilt => Res = Build(interval_ends, function_defs, LastCall)

\* with_fixed_value(1, 61) and then with_fixed_value(3, 156) on one Linear
\* segment of gradient 0: the profile is the constant 156
C18_Witness ==
    /\ CallsBuilt
    /\ calls = << <<1, 61>>, <<3, 156>> >>
    /\ function_defs = <<LinearDef(0)>>
    /\ IsOk(Res)
    /\ Res.profile.interval_functions = <<[kind |-> "Linear", a |-> 0, b |-> 156]>>

----------------------------------------------------------------------------
(* C20 *)
LayersBuilt == pc = "layers" /\ Unwrap(layers_atm).tag = "Ok"

Layers == Unwrap(layers_atm)

TemperatureAnchor == layers_def.temperature.start

PressureAnchor == layers_def.pressure

\* temperature(h0_t) and pressure(h0_p) of the built atmosphere
AnchorTemperature == Temperature(Layers, TemperatureAnchor.start_h)

AnchorPressureTerm == Pressure(Layers, PressureAnchor.start_h)

\* how often a pressure was divided or multiplied by a factor
Count(p, op, factor) ==
    Cardinality({k \in 1..Len(p.ops) : p.ops[k] = [op |-> op, by |-> factor]})

\* in real arithmetic the term is its base: it was multiplied by every
\* factor as often as it was divided by it
Cancels(p) ==
    \A k \in 1..Len(p.ops) :
        Count(p, "div", p.ops[k].by) = Count(p, "mul", p.ops[k].by)

\* the pressure at the anchor is the anchor pressure as far as the term
\* tells: the rounding of the divisions and multiplications is left aside
PressureMeetsAnchor ==
    AnchorPressureTerm.base = PressureAnchor.start_p /\ Cancels(AnchorPressureTerm)

\* the anchor is on the lowest layer boundary
OnLowest(h) == Layers.layer_altitudes[1] = h

\* temperature(h0_t) == t0 as f64 values, and pressure(h0_p) is p0
C20_Original ==
    LayersBuilt =>
        /\ Eq(AnchorTemperature, TemperatureAnchor.start_t)
        /\ PressureMeetsAnchor

\* C20: the atmosphere from_def builds meets its anchors up to the rounding
\* of the f64 operations: temperature(h0_t) differs from t0 by less than
\* 2^-40 K, pressure(h0_p) is p0 divided and multiplied by the same
\* factors, and both are exactly the anchor values when the anchor is on the
\* lowest layer boundary.
C20_AnchorsUpToRounding ==
    LayersBuilt =>
        /\ Below(Sub(AnchorTemperature, TemperatureAnchor.start_t), -40)
        /\ PressureMeetsAnchor
        /\ OnLowest(TemperatureAnchor.start_h) =>
              Eq(AnchorTemperature, TemperatureAnchor.start_t)
        /\ OnLowest(PressureAnchor.start_h) =>
              AnchorPressureTerm = PressureOf(PressureAnchor.start_p)

\* boundaries at 1000 m and 11000 m, 250 K at 3000 m: temperature(3000) has
\* been asked and is not 250
C20_Witness ==
    /\ LayersBuilt
    /\ layers_def.temperature.lapses = InversionLapses
    /\ TemperatureAnchor = [start_h |-> 3000, start_t |-> FromInt(250)]
    /\ PressureAnchor.start_h = 3000
    /\ query = Some([fn |-> "temperature", h |-> 3000, value |-> AnchorTemperature])
    /\ ~Eq(AnchorTemperature, FromInt(250))
    /\ Len(AnchorPressureTerm.ops) = 2

\* the US-76 definition anchored at 0 m: temperature(0) == 288 exactly
C20_WitnessUs76 ==
    /\ LayersBuilt
    /\ layers_def.temperature.lapses = Us76Lapses
    /\ TemperatureAnchor = [start_h |-> 0, start_t |-> FromInt(288)]
    /\ PressureAnchor.start_h = 0
    /\ Eq(AnchorTemperature, FromInt(288))
    /\ Len(Layers.start_temperatures) = 7

----------------------------------------------------------------------------
(* fill_fixed_points and fill_fixed_point, call by call                    *)
(* (src/src/air/atmosphere/vertical_profile.rs, lines 212-359).            *)
(* lowered holds what generate_intermediate_function_defs returned, filled *)
(* the function_defs slice the calls work on, result what                  *)
(* fill_fixed_points returned.  filling is                                 *)
(*   index       the index of the for loop of fill_fixed_points,           *)
(*   stack       the index of every call of fill_fixed_point in progress,  *)
(*               the innermost last,                                       *)
(*   at          "loop": between two calls of the for loop,                *)
(*               "enter": the innermost call is at its first line,         *)
(*               "match": the innermost call is at `let point_below`,      *)
(*   propagated  the indices whose fixed point came from a neighbour.      *)
(* pc: "fill" (fill_fixed_points is running), "fill_done" (it returned).   *)

\* interval_ends of a builder with n functions: ascending altitudes
BoundariesOf(n) ==
    {e \in [1..(n - 1) -> Alts] : \A k \in 1..(n - 2) : e[k] < e[k + 1]}

\* the fixed values given to the builder whose fill is followed
FillFixedValues ==
    {None} \cup {Some(<<a, y>>) : a \in {1, 3}, y \in {61, 156}}

\* build() has called fill_fixed_points(&interval_ends, &mut defs, fixed_value)
InitFill ==
    /\ pc = "fill"
    /\ \E n \in 1..MaxSegments :
          /\ interval_ends \in BoundariesOf(n)
          /\ function_defs \in [1..n -> FunDefs]
    /\ fixed_value \in FillFixedValues
    /\ lowered = Some(GenerateIntermediateFunctionDefs(interval_ends, function_defs))
    /\ filled = Some(Unwrap(lowered).funs)
    /\ result = None
    /\ filling = [index |-> 0, stack |-> <<>>, at |-> "loop", propagated |-> {}]
    /\ query = None
    /\ AtmIdle
    /\ TargetIdle
    /\ RayIdle
    /\ StepperIdle
    /\ CallsIdle
    /\ LayersIdle

\* what the calls of fill_fixed_point leave alone
fill_rest ==
    <<interval_ends, function_defs, fixed_value, lowered, query, atm_vars, target_vars,
      ray_vars, stepper_vars, calls, layers_vars>>

\* the index of the innermost call in progress
Innermost == filling.stack[Len(filling.stack)]

\* fill_fixed_points returns r
FillReturns(r, defs) ==
    /\ result' = Some(r)
    /\ filled' = Some(defs)
    /\ pc' = "fill_done"
    /\ filling' = [filling EXCEPT !.stack = <<>>, !.at = "loop"]

\* `for index in 0..function_defs.len()`: the next call of fill_fixed_point
FillCall ==
    /\ pc = "fill"
    /\ filling.at = "loop"
    /\ filling.index < Len(Unwrap(filled))
    /\ filling' = [filling EXCEPT !.stack = <<filling.index>>, !.at = "enter"]
    /\ UNCHANGED <<pc, filled, result>>
    /\ UNCHANGED fill_rest

\* the for loop is over: Ok(())
FillFinish ==
    /\ pc = "fill"
    /\ filling.at = "loop"
    /\ filling.index >= Len(Unwrap(filled))
    /\ FillReturns(OkUnit, Unwrap(filled))
    /\ UNCHANGED fill_rest

\* mutant: the recursive call made on the same index
RecursionIndex_Same(index) == index

\* the index of the recursive call:
\* `Self::fill_fixed_point(interval_ends, function_defs, index + 1, fixed_value)`
RecursionIndex(index) == index + 1

\* fill_fixed_point up to `let point_below`: the fixed value is assigned if
\* it is in the interval; with no fixed point here, below or above, the
\* call recurses on index + 1, or returns NoFixedPoint on the last interval
FillEnter ==
    /\ pc = "fill"
    /\ filling.at = "enter"
    /\ LET index == Innermost
           defs  == Unwrap(filled)
           ends  == Unwrap(lowered).ends
           defs1 == AssignFixedValue(ends, defs, index, fixed_value)
       IN  IF IsSome(fixed_value) /\ defs[index + 1].kind = "Linear"
              /\ index >= 1 /\ index - 1 >= Len(ends)
           THEN FillReturns(Panic("index out of bounds"), defs)
           ELSE IF ~NoFixedPointAround(defs, defs1, index)
           THEN /\ filled' = Some(defs1)
                /\ filling' = [filling EXCEPT !.at = "match"]
                /\ UNCHANGED <<pc, result>>
           ELSE IF index + 1 < Len(defs)
           THEN /\ filled' = Some(defs1)
                /\ filling' = [filling EXCEPT !.stack = Append(@, RecursionIndex(index))]
                /\ UNCHANGED <<pc, result>>
           ELSE FillReturns(Err(NoFixedPoint), defs1)
    /\ UNCHANGED fill_rest

\* fill_fixed_point from `let point_below` on: the checks against the
\* neighbours and the propagation; Ok(()) returns to the calling
\* fill_fixed_point, which goes on at its `let point_below`, or to the for
\* loop; an error is returned through every caller (the `?`)
FillReturn ==
    /\ pc = "fill"
    /\ filling.at = "match"
    /\ LET index == Innermost
           defs  == Unwrap(filled)
           r     == FillMatch(Unwrap(lowered).ends, defs, index, fixed_value)
           outer == SubSeq(filling.stack, 1, Len(filling.stack) - 1)
       IN  IF r.res # OkUnit THEN FillReturns(r.res, r.defs)
           ELSE /\ filled' = Some(r.defs)
                /\ filling' =
                      [index |-> IF outer = <<>> THEN filling.index + 1 ELSE filling.index,
                       stack |-> outer,
                       at |-> IF outer = <<>> THEN "loop" ELSE "match",
                       propagated |->
                           IF r.defs[index + 1] # defs[index + 1]
                           THEN filling.propagated \cup {index}
                           ELSE filling.propagated]
                /\ UNCHANGED <<pc, result>>
    /\ UNCHANGED fill_rest

NextFill == FillCall \/ FillFinish \/ FillEnter \/ FillReturn

SpecFill == InitFill /\ [][NextFill]_vars

\* fill_fixed_points runs on until it returns
SpecFillFair == SpecFill /\ WF_vars(NextFill)

----------------------------------------------------------------------------
(* Environment::n_minus_1, n and dn (src/src/environment.rs, lines 20-42). *)
(* dn evaluates the atmosphere 0.01 m below and above h, so the altitudes  *)
(* given to the atmosphere are whole centimetres here.  What a temperature *)
(* or pressure function returns at an altitude, and what                   *)
(* air_index_minus_1 makes of it, is kept as a term of the function and    *)
(* its arguments: the functions are deterministic, so equal terms are      *)
(* equal numbers.                                                          *)
(* pc: "env_def" (an AtmosphereDef), "env" (an Environment was made).      *)

\* interval ends in centimetres
Cm(ends) == [k \in 1..Len(ends) |-> 100 * ends[k]]

\* VerticalProfile::eval at x cm: the function of the interval of x, at x
ProfileAt(profile, x) ==
    [fn |-> "eval",
     f |-> profile.interval_functions[BinarySearch(Cm(profile.altitude_interval_ends), x) + 1],
     x |-> x]

\* PressureProfile::eval at x cm
PressureAt(profile, x) ==
    [fn |-> "eval",
     f |-> profile.pressure_functions[BinarySearch(Cm(profile.altitude_interval_ends), x) + 1],
     x |-> x]

\* air_index_minus_1(lambda, p, t, rh), lambda in nm
AirIndexMinus1(lambda, p, t, rh) ==
    [fn |-> "air_index_minus_1", lambda |-> lambda, p |-> p, t |-> t, rh |-> rh]

\* mutant: the relative humidity is read from the humidity profile
NMinus1_Humid(atm, x) ==
    AirIndexMinus1(530, PressureAt(atm.pressure, x), ProfileAt(atm.temperature, x),
                   ProfileAt(atm.humidity, x))

\* Environment::n_minus_1(h), h = x cm:
\* air_index_minus_1(530e-9, atmosphere.pressure(h), atmosphere.temperature(h), 0.0)
NMinus1(atm, x) ==
    AirIndexMinus1(530, PressureAt(atm.pressure, x), ProfileAt(atm.temperature, x), 0)

\* Environment::n(h): n_minus_1(h) + 1.0
N(atm, x) == [fn |-> "plus_one", v |-> NMinus1(atm, x)]

\* Environment::dn(h): (n2 - n1) / (2.0 * epsilon), epsilon = 0.01 m
Dn(atm, x) ==
    [fn |-> "central_difference", n1 |-> NMinus1(atm, x - 1), n2 |-> NMinus1(atm, x + 1)]

\* humidity definitions: constant, a gradient, a spline, two segments, and
\* one that does not build (gradients only, no fixed point)
HumidityDefs ==
    {[first |-> LinearDef(0), next |-> <<>>, fixed_point |-> Some(<<0, 0>>)],
     [first |-> LinearDef(2), next |-> <<>>, fixed_point |-> Some(<<3, 156>>)],
     [first |-> SplineDef(SplinePoints), next |-> <<>>, fixed_point |-> None],
     [first |-> LinearDef(0), next |-> <<FunctionDefWithAlt(3, LinearDef(2))>>,
      fixed_point |-> Some(<<1, 61>>)],
     [first |-> LinearDef(0), next |-> <<>>, fixed_point |-> None]}

\* the definition with another humidity profile
WithHumidity(def, hum) ==
    [def EXCEPT !.first_humidity_function = hum.first,
                !.next_humidity_functions = hum.next,
                !.humidity_fixed_point = hum.fixed_point]

\* the definitions of the atmospheres of the environments
EnvDefs ==
    {WithHumidity(
        [pressure |-> [altitude |-> h0, pressure |-> 101325],
         first_temperature_function |-> first,
         next_functions |-> next,
         temperature_fixed_point |-> Some(<<3, 156>>),
         first_humidity_function |-> LinearDef(0),
         next_humidity_functions |-> <<>>,
         humidity_fixed_point |-> None], hum) :
        h0 \in {0, 3}, first \in FunDefs,
        next \in {<<>>, <<FunctionDefWithAlt(3, SplineDef(SplinePoints))>>,
                  <<FunctionDefWithAlt(2, LinearDef(2))>>},
        hum \in HumidityDefs}

InitEnv ==
    /\ pc = "env_def"
    /\ atm_def \in EnvDefs
    /\ atmosphere = None
    /\ query = None
    /\ BuilderIdle
    /\ ExtIdle

env_rest == <<builder_vars, ext_vars>>

\* Environment { shape, atmosphere: Atmosphere::from_def(def) }
NewEnvironment ==
    /\ pc = "env_def"
    /\ pc' = "env"
    /\ atmosphere' = Some(FromDef(atm_def))
    /\ UNCHANGED <<atm_def, query>>
    /\ UNCHANGED env_rest

\* Environment::n_minus_1(h)
EnvNMinus1(h) ==
    /\ pc = "env"
    /\ Unwrap(atmosphere).tag = "Ok"
    /\ query' = Some([fn |-> "n_minus_1", h |-> h,
                      value |-> NMinus1(Unwrap(atmosphere), 100 * h)])
    /\ UNCHANGED <<pc, atm_def, atmosphere>>
    /\ UNCHANGED env_rest

\* Environment::n(h)
EnvN(h) ==
    /\ pc = "env"
    /\ Unwrap(atmosphere).tag = "Ok"
    /\ query' = Some([fn |-> "n", h |-> h, value |-> N(Unwrap(atmosphere), 100 * h)])
    /\ UNCHANGED <<pc, atm_def, atmosphere>>
    /\ UNCHANGED env_rest

\* Environment::dn(h)
EnvDn(h) ==
    /\ pc = "env"
    /\ Unwrap(atmosphere).tag = "Ok"
    /\ query' = Some([fn |-> "dn", h |-> h, value |-> Dn(Unwrap(atmosphere), 100 * h)])
    /\ UNCHANGED <<pc, atm_def, atmosphere>>
    /\ UNCHANGED env_rest

NextEnv ==
    \/ NewEnvironment
    \/ \E h \in Alts : EnvNMinus1(h)
    \/ \E h \in Alts : EnvN(h)
    \/ \E h \in Alts : EnvDn(h)

SpecEnv == InitEnv /\ [][NextEnv]_vars

----------------------------------------------------------------------------
(* C21 *)
\* the pressure function that belongs to the shape of a temperature
\* function
FormFor(temp_function) ==
    CASE temp_function.kind = "Linear" /\ temp_function.a = 0 -> "Exponential"
      [] temp_function.kind = "Linear" /\ temp_function.a # 0 -> "Power"
      [] temp_function.kind = "Cubic" /\ Discriminant(temp_function.poly) >= 0 ->
            "TriplePower"
      [] temp_function.kind = "Cubic" /\ Discriminant(temp_function.poly) < 0 ->
            "PowerWithAtan"

\* the index of the interval that contains the pressure fixed point
StartIndex == BinarySearch(Atm.temperature.altitude_interval_ends, atm_def.pressure.altitude)

\* where the pressure function of interval index (0-based) is anchored when
\* the intervals are filled outwards from StartIndex, each one once: at the
\* fixed point, at the upper end of an interval below it, at the lower end
\* of an interval above it
AnchorOutwards(index) ==
    IF index = StartIndex THEN atm_def.pressure.altitude
    ELSE IF index < StartIndex THEN Atm.temperature.altitude_interval_ends[index + 1]
    ELSE Atm.temperature.altitude_interval_ends[index]

\* C21: the pressure profile has the interval ends of the temperature
\* profile and one pressure function per temperature interval, of the form
\* that belongs to the interval's shape, anchored as the propagation
\* outwards from the interval of h0 anchors it.
C21_OneFunctionPerInterval ==
    (AtmOk /\ query = None) =>
        /\ PressureEnds = Atm.temperature.altitude_interval_ends
        /\ Len(PressureFunctions) = Len(Atm.temperature.interval_functions)
        /\ Len(PressureFunctions) = Len(PressureEnds) + 1
        /\ \A k \in 1..Len(PressureFunctions) :
              /\ PressureFunctions[k].temp = Atm.temperature.interval_functions[k]
              /\ PressureFunctions[k].kind = FormFor(Atm.temperature.interval_functions[k])
              /\ PressureFunctions[k].h0 = AnchorOutwards(k - 1)

\* the fixed point in a middle interval, pressure functions filled
\* below and above it, a TriplePower and a PowerWithAtan among them
C21_Witness ==
    /\ AtmOk
    /\ query = None
    /\ StartIndex > 0
    /\ StartIndex < Len(PressureEnds)
    /\ \E k \in 1..Len(PressureFunctions) : PressureFunctions[k].kind = "TriplePower"
    /\ \E k \in 1..Len(PressureFunctions) : PressureFunctions[k].kind = "PowerWithAtan"
    /\ \E k \in 1..Len(PressureFunctions) : PressureFunctions[k].kind = "Power"
    /\ \E k \in 1..Len(PressureFunctions) : PressureFunctions[k].kind = "Exponential"

----------------------------------------------------------------------------
(* C22 *)
\* FunctionArray::eval and FunctionArray::derivative: the index both arms of
\* the match use
FunctionArrayIndex(interval_edges, x) == BinarySearch(interval_edges, x)

\* the number of interval ends strictly below h: the 0-based index of the
\* interval (a_i, a_i+1] that contains h
EndsBelow(ends, h) == Cardinality({k \in 1..Len(ends) : ends[k] < h})

\* Atmosphere::pressure(h) has just returned
PressureAsked == AtmOk /\ IsSome(query) /\ Unwrap(query).fn = "pressure"

C22_WitnessAbove ==
    /\ PressureAsked
    /\ StrictlyAscending(PressureEnds)
    /\ Len(PressureEnds) >= 2
    /\ Unwrap(query).h > PressureEnds[Len(PressureEnds)]
    /\ BinarySearch(PressureEnds, Unwrap(query).h) = Len(PressureFunctions) - 1

\* pressure asked below the first end: function 0
C22_WitnessBelow ==
    /\ PressureAsked
    /\ StrictlyAscending(PressureEnds)
    /\ Len(PressureEnds) >= 2
    /\ Unwrap(query).h < PressureEnds[1]
    /\ BinarySearch(PressureEnds, Unwrap(query).h) = 0

----------------------------------------------------------------------------
(* C23 *)
\* the ray launched from the same altitude with the slope negated
Mirror(r) == [r EXCEPT !.start_dh = 0 - r.start_dh]

\* state_at_dist of the shape the call in progress belongs to
StateAtDist(r, dist) ==
    IF pc \in {"ray", "ray_done"} THEN SphericalStateAtDist(r, dist)
    ELSE FlatStateAtDist(r, dist)

\* state_at_dist has returned ray_state
StateReturned == pc \in {"ray_done", "flat_ray_done"}

\* what a step of state_at_dist leaves true
C23_Step ==
    /\ ray_state'.x >= ray_state.x
    /\ StateReturned' =>
          /\ ray_state' = StateAtDist(ray, ray_dist)'
          /\ (ray_dist < 0) =>
                /\ ray_state'.x = 0 - ray_dist
                   \/ (pc' = "flat_ray_done" /\ ray_state'.x >= 0 - ray_dist)
                /\ ray_state'.h = StateAtDist(Mirror(ray), 0 - ray_dist)'.h

\* C23: for a flat or spherical Ray, x never decreases during state_at_dist,
\* and h_at_dist(-d) of the ray with slope s is h_at_dist(d) of the ray
\* launched from the same altitude with slope -s: the integration runs over
\* the magnitude d from the state with the slope negated.
C23_NegativeDistanceMirrors == [][C23_Step]_vars

\* a spherical ray with slope 1 asked at -13: three steps from slope -1
C23_Witness ==
    /\ pc = "ray_done"
    /\ ray = [start_h |-> 100, start_dh |-> 1]
    /\ ray_dist = 0 - 13
    /\ steps = <<5, 5, 3>>
    /\ ray_state = SphericalStateAtDist([start_h |-> 100, start_dh |-> 0 - 1], 13)
    /\ ray_state # SphericalStateAtDist([start_h |-> 100, start_dh |-> 1], 13)

\* a flat ray with slope 1 asked at -13: three steps from slope -1
C23_WitnessFlat ==
    /\ pc = "flat_ray_done"
    /\ ray = [start_h |-> 100, start_dh |-> 1]
    /\ ray_dist = 0 - 13
    /\ steps = <<5, 5, 5>>
    /\ ray_state = FlatStateAtDist([start_h |-> 100, start_dh |-> 0 - 1], 13)
    /\ ray_state # FlatStateAtDist([start_h |-> 100, start_dh |-> 1], 13)

----------------------------------------------------------------------------
(* C30 *)
FlatDone == pc = "flat_ray_done"

\* the distance rounded up to a multiple of the step
NextMultiple(d) == ((d + def_step - 1) \div def_step) * def_step

\* the distances of the sign of dist whose magnitude rounds up as |dist| does
SameMultiple(dist) ==
    {d \in RayDists : (d >= 0) = (dist >= 0) /\ NextMultiple(Abs(d)) = NextMultiple(Abs(dist))}

C30_WitnessZero == FlatDone /\ ray_dist = 0 /\ steps = <<>> /\ ray_state.x = 0

----------------------------------------------------------------------------
(* C24 *)
\* the altitude segment k (1-based) starts at: none for the first segment
StartAlt(k) == IF k = 1 THEN None ELSE Some(interval_ends[k - 1])

\* the altitude segment k ends at: none for the last segment
EndAlt(k) == IF k = Len(function_defs) THEN None ELSE Some(interval_ends[k])

\* what segment k was lowered to
Lowering(k) == IntoIntermediate(function_defs[k], StartAlt(k), EndAlt(k))

\* the lowerings of the segments k.., one after the other
RECURSIVE LoweringsFrom(_)
LoweringsFrom(k) ==
    IF k > Len(function_defs) THEN [alts |-> <<>>, funs |-> <<>>]
    ELSE LET rest == LoweringsFrom(k + 1)
         IN  [alts |-> Lowering(k).alts \o rest.alts,
              funs |-> Lowering(k).funs \o rest.funs]

\* the Linear interval that continues the spline below its lowest control
\* altitude, and the one above its highest
LeadingLinear(points) ==
    LET spline == SplineNew(points)
    IN  ILinear(SplineDerivativeStart(spline),
                Some(<<points[1][1], points[1][2]>>))

TrailingLinear(points) ==
    LET spline == SplineNew(points)
    IN  ILinear(SplineDerivativeEnd(spline),
                Some(<<points[Len(points)][1], points[Len(points)][2]>>))

\* whether the claim expects a leading / trailing Linear for segment k
LeadExpected(k) ==
    k = 1 \/ interval_ends[k - 1] < function_defs[k].points[1][1]

TrailExpected(k) ==
    \/ k = Len(function_defs)
    \/ interval_ends[k] > function_defs[k].points[Len(function_defs[k].points)][1]

NumLinear(funs) == Cardinality({i \in 1..Len(funs) : funs[i].kind = "Linear"})

\* the lowering of the spline segment k is as the claim says
SplineLoweredAsSaid(k) ==
    LET funs == Lowering(k).funs
        lead == funs # <<>> /\ funs[1] = LeadingLinear(function_defs[k].points)
        trail == funs # <<>> /\ funs[Len(funs)] = TrailingLinear(function_defs[k].points)
    IN  /\ lead = LeadExpected(k)
        /\ trail = TrailExpected(k)
        /\ NumLinear(funs) = (IF lead THEN 1 ELSE 0) + (IF trail THEN 1 ELSE 0)

\* C24: build() lowers the segments one after the other; a Linear segment
\* becomes exactly one Linear interval without a fixed point; a Spline
\* segment has a leading Linear exactly when it is the first segment or
\* starts below the lowest control altitude and a trailing Linear exactly
\* when it is the last segment or ends above the highest one, each anchored
\* at the spline's end point with the spline's derivative there, and no
\* other Linear interval.
C24_Lowering ==
    Built =>
        /\ Low.funs = LoweringsFrom(1).funs
        /\ Low.ends = LoweringsFrom(1).alts
        /\ \A k \in 1..Len(function_defs) :
              IF function_defs[k].kind = "Linear"
              THEN Lowering(k).funs = <<ILinear(function_defs[k].gradient, None)>>
              ELSE SplineLoweredAsSaid(k)

\* a spline between two gradients, starting exactly on its lowest control
\* altitude and ending above its highest: no leading Linear, a trailing one
C24_Witness ==
    /\ Built
    /\ Len(function_defs) = 3
    /\ function_defs[2].kind = "Spline"
    /\ interval_ends = <<1, 5>>
    /\ ~LeadExpected(2)
    /\ TrailExpected(2)
    /\ Len(Lowering(2).funs) = 3
    /\ Lowering(2).funs[3] = TrailingLinear(SplinePoints)

\* a first spline segment that ends inside the control points: a leading
\* Linear and no trailing one
C24_WitnessLead ==
    /\ Built
    /\ Len(function_defs) = 2
    /\ function_defs[1].kind = "Spline"
    /\ interval_ends = <<3>>
    /\ LeadExpected(1)
    /\ ~TrailExpected(1)
    /\ Lowering(1).funs[1] = LeadingLinear(SplinePoints)
    /\ Lowering(1).funs[Len(Lowering(1).funs)].kind = "Cubic"

----------------------------------------------------------------------------
(* C25 *)
\* the function_defs the calls of fill_fixed_point work on
Defs == Unwrap(filled)

\* the point interval i (1-based) offers its neighbour at the end ends[k]
BoundaryPoint(i, k) == Some(<<Low.ends[k], ValueOf(Defs[i], Low.ends[k])>>)

\* a call of fill_fixed_point is at its match and returns Ok
Propagating == pc = "fill" /\ filling.at = "match" /\ pc' = "fill"

\* what a step of fill_fixed_points leaves true
C25_Step ==
    /\ \A k \in filling.propagated : Unwrap(filled')[k + 1] = Defs[k + 1]
    /\ Propagating =>
          LET i == Innermost + 1
              below == i > 1 /\ Determined(Defs[i - 1])
              above == i < Len(Defs) /\ Determined(Defs[i + 1])
          IN  /\ \A k \in 1..Len(Defs) : k # i => Unwrap(filled')[k] = Defs[k]
              /\ Determined(Defs[i]) => Unwrap(filled')[i] = Defs[i]
              /\ ~Determined(Defs[i]) =>
                    /\ below \/ above
                    /\ Unwrap(filled')[i].gradient = Defs[i].gradient
                    /\ below => Unwrap(filled')[i].fixed_point = BoundaryPoint(i - 1, i - 1)
                    /\ ~below => Unwrap(filled')[i].fixed_point = BoundaryPoint(i + 1, i)
                    /\ Innermost \in filling'.propagated

\* C25: when fill_fixed_point reaches its match on a Linear interval that has
\* no fixed point, the interval takes the value of the interval below at
\* their shared boundary if that one is determined, else that of the
\* interval above; no other interval changes, and a fixed point that came
\* from a neighbour is not changed by any later step.
C25_AnchoringOrder == [][C25_Step]_vars

\* a gradient between two anchored intervals took the value from below, and
\* the two values differ
C25_Witness ==
    /\ pc = "fill"
    /\ \E i \in 2..(Len(Defs) - 1) :
          /\ (i - 1) \in filling.propagated
          /\ Determined(Low.funs[i - 1])
          /\ Determined(Low.funs[i + 1])
          /\ Defs[i].fixed_point = BoundaryPoint(i - 1, i - 1)
          /\ Defs[i].fixed_point # None
          /\ ValueOf(Defs[i], Low.ends[i]) # ValueOf(Defs[i + 1], Low.ends[i])

\* two gradients below a spline: the second took its value from above, from
\* the spline's leading Linear, and the first from the second
C25_WitnessAbove ==
    /\ pc = "fill_done"
    /\ Unwrap(result) = OkUnit
    /\ {0, 1} \subseteq filling.propagated
    /\ ~Determined(Low.funs[1])
    /\ ~Determined(Low.funs[2])
    /\ Defs[2].fixed_point = BoundaryPoint(3, 2)
    /\ Defs[1].fixed_point = BoundaryPoint(2, 1)

----------------------------------------------------------------------------
(* C26 *)
\* the environment whose atmosphere has the humidity profile hum instead
OtherAtmosphere(hum) == FromDef(WithHumidity(atm_def, hum))

\* what the function asked last returns in the atmosphere atm
Answer(atm, q) ==
    IF q.fn = "n_minus_1" THEN NMinus1(atm, 100 * q.h)
    ELSE IF q.fn = "n" THEN N(atm, 100 * q.h)
    ELSE Dn(atm, 100 * q.h)

EnvAsked == pc = "env" /\ IsSome(query) /\ Atm.tag = "Ok"

\* C26: n_minus_1(h), n(h) and dn(h) of an Environment are what they are in
\* every Environment whose atmosphere differs in the humidity profile only:
\* the relative humidity given to air_index_minus_1 is the constant 0.
C26_HumidityIndependent ==
    EnvAsked =>
        /\ Unwrap(query).value = Answer(Atm, Unwrap(query))
        /\ \A hum \in HumidityDefs :
              LET other == OtherAtmosphere(hum)
              IN  other.tag = "Ok" =>
                    /\ other.temperature = Atm.temperature
                    /\ other.pressure = Atm.pressure
                    /\ Answer(other, Unwrap(query)) = Unwrap(query).value

\* dn asked on a boundary of an atmosphere with a humidity gradient, while
\* an atmosphere with another humidity at that altitude exists
C26_Witness ==
    /\ EnvAsked
    /\ Unwrap(query).fn = "dn"
    /\ Unwrap(query).h = 3
    /\ atm_def.first_humidity_function = LinearDef(2)
    /\ Unwrap(query).value.n1.t.f # Unwrap(query).value.n2.t.f
    /\ Unwrap(query).value.n1.rh = 0
    /\ \E hum \in HumidityDefs :
          /\ OtherAtmosphere(hum).tag = "Ok"
          /\ ProfileAt(OtherAtmosphere(hum).humidity, 300) # ProfileAt(Atm.humidity, 300)

----------------------------------------------------------------------------
(* C27 *)
\* the profile build() returned
Profile == Res.profile

\* the functions of the intervals below and above the end k (1-based) of
\* the profile, at that end
BelowEnd(k) ==
    VerticalFunctionEval(Profile.interval_functions[k], Profile.altitude_interval_ends[k])

AboveEnd(k) ==
    VerticalFunctionEval(Profile.interval_functions[k + 1],
                         Profile.altitude_interval_ends[k])

\* C27: in every profile build() returns Ok for, the functions of two
\* adjacent intervals are within 1e-4 of each other at the end they share,
\* joins of two Linear intervals included.
C27_TemperatureContinuity ==
    (Built /\ IsOk(Res)) =>
        \A k \in 1..Len(Profile.altitude_interval_ends) : ~Apart(BelowEnd(k), AboveEnd(k))

\* two gradients joined at a boundary, and a join with a spline at which the
\* two sides differ by the tolerance
C27_Witness ==
    /\ Built
    /\ IsOk(Res)
    /\ \E k \in 1..Len(Profile.altitude_interval_ends) :
          /\ Profile.interval_functions[k].kind = "Linear"
          /\ Profile.interval_functions[k + 1].kind = "Linear"
          /\ Profile.interval_functions[k].a # Profile.interval_functions[k + 1].a
          /\ BelowEnd(k) = AboveEnd(k)
    /\ \E k \in 1..Len(Profile.altitude_interval_ends) :
          /\ Profile.interval_functions[k + 1].kind = "Cubic"
          /\ BelowEnd(k) # AboveEnd(k)

----------------------------------------------------------------------------
(* C28 *)
\* some interval is determined when the lowering is done
LoweredDetermined == \E i \in LowIndices : Determined(Low.funs[i + 1])

\* C28: the fixed value, if one is given, lies in at least one interval of
\* the lowered profile, whatever the order of the interval ends; build()
\* returns NoFixedPoint only if the lowered profile has no Cubic and no
\* anchored Linear interval and no fixed value was given.
C28_NoFixedPointOnlyIfUndetermined ==
    CallsBuilt =>
        /\ IsSome(fixed_value) => \E i \in LowIndices : LiesIn(Low.ends, i, FixedX)
        /\ (LoweredDetermined \/ IsSome(fixed_value)) => Res # Err(NoFixedPoint)
        /\ (Res = Err(NoFixedPoint)) =>
              /\ \A i \in LowIndices :
                    Low.funs[i + 1].kind = "Linear" /\ Low.funs[i + 1].fixed_point = None
              /\ fixed_value = None

\* three gradients with the same boundary given twice, the fixed value in
\* the last interval only: the recursion reaches it and build() returns Ok
C28_Witness ==
    /\ CallsBuilt
    /\ interval_ends = <<1, 1>>
    /\ ~LoweredDetermined
    /\ fixed_value = Some(<<3, 156>>)
    /\ ~LiesIn(Low.ends, 0, FixedX)
    /\ ~LiesIn(Low.ends, 1, FixedX)
    /\ LiesIn(Low.ends, 2, FixedX)
    /\ IsOk(Res)

\* gradients only and no fixed value: NoFixedPoint
C28_WitnessNone ==
    /\ CallsBuilt
    /\ Len(function_defs) = 3
    /\ ~LoweredDetermined
    /\ fixed_value = None
    /\ Res = Err(NoFixedPoint)

----------------------------------------------------------------------------
(* C29 *)

\* the calls in progress are on consecutive indices, from the index of the
\* for loop up
StackAscends ==
    \A k \in 1..Len(filling.stack) : filling.stack[k] = filling.index + (k - 1)

\* every call in progress is on an interval of the lowered profile
StackInRange ==
    \A k \in 1..Len(filling.stack) : filling.stack[k] \in 0..(Len(Defs) - 1)

\* the call for index 0 returned Ok and fill_fixed_points is still running
PastIndexZero == pc = "fill" /\ filling.index >= 1

\* the depth of the recursion, the indices the calls are on and what the
\* later top-level calls find
C29_Depth ==
    pc \in {"fill", "fill_done"} =>
        /\ filling.index \in 0..Len(Defs)
        /\ StackAscends
        /\ StackInRange
        /\ Len(filling.stack) <= Len(Defs) - filling.index
        /\ PastIndexZero =>
              /\ Len(filling.stack) <= 1
              /\ \A i \in 0..(filling.index - 1) : HasFixedPoint(Defs[i + 1])
        /\ (pc = "fill_done") =>
              /\ filling.stack = <<>>
              /\ [defs |-> Defs, res |-> Res]
                    = FillFixedPoints(Low.ends, Low.funs, fixed_value)

\* the for loop visits each index once, in order: the index changes only
\* when a top-level call returns Ok, by one, and a call made by the loop is
\* on the index of the loop; a recursive call is on the index above that of
\* its caller
C29_Step ==
    /\ filling'.index \in {filling.index, filling.index + 1}
    /\ (filling'.index = filling.index + 1) =>
          /\ filling.at = "match"
          /\ filling.stack = <<filling.index>>
          /\ filling'.at = "loop"
    /\ (filling.at = "loop" /\ filling'.at # "loop") =>
          filling'.stack = <<filling.index>>
    /\ (filling.at = "loop" /\ filling'.at = "loop") => pc' = "fill_done"
    /\ (Len(filling'.stack) > Len(filling.stack) /\ filling.stack # <<>>) =>
          /\ filling.at = "enter"
          /\ filling'.stack = Append(filling.stack, Innermost + 1)

\* C29: build() terminates for every builder input: fill_fixed_points
\* returns; each recursive call of fill_fixed_point is on index + 1, so the
\* calls in progress are never more than the lowered intervals; the for loop
\* visits each index once; and once the call for index 0 has returned Ok,
\* every interval below the index of the loop is anchored and no later
\* top-level call recurses.
C29_Terminates ==
    /\ []C29_Depth
    /\ [][C29_Step]_vars
    /\ <>(pc = "fill_done")

\* three gradients and the fixed value in the last interval: the recursion
\* is as deep as the profile has intervals
C29_Witness ==
    /\ pc = "fill"
    /\ Len(Defs) = 3
    /\ filling.index = 0
    /\ filling.stack = <<0, 1, 2>>
    /\ filling.at = "match"

\* the call for index 0 recursed to the last interval and returned Ok; the
\* top-level call for the last index runs without a call of its own
C29_WitnessLater ==
    /\ PastIndexZero
    /\ Len(Defs) = 3
    /\ filling.index = 2
    /\ filling.stack = <<2>>
    /\ filling.at = "match"
    /\ filling.propagated = {0, 1}

\* fill_fixed_points returned Ok after a recursion through every interval
C29_WitnessDone ==
    /\ pc = "fill_done"
    /\ Len(Defs) = 3
    /\ filling.propagated = {0, 1}
    /\ Res = OkUnit

====
